---------------------------- MODULE Spec2Model ----------------------------
(***************************************************************************)
(* A model of the mygym pose pipeline and keypoint overlay renderer.       *)
(*                                                                         *)
(*   PoseDetectionManager        src/src/poseDetection.ts                  *)
(*   KeypointVisualizerComponent src/unnamed/part_000 (keypointVisualizer) *)
(*                                                                         *)
(* Times are integers in milliseconds: 0.2 s is 200, 0.05 s is 50 and the  *)
(* 0.001 s clamp of the pipeline is 1.                                     *)
(***************************************************************************)
EXTENDS Integers, Sequences, FiniteSets, TLC

VARIABLES
    \* ---- PoseDetectionManager (poseDetection.ts) ----
    isInitialized,      \* private isInitialized
    isInitializing,     \* private isInitializing
    poseLandmarker,     \* the model instance, NoModel for null
    config,             \* the configuration fields set by configure()
    processingQueue,    \* private processingQueue (request ids, in queue order)
    isProcessing,       \* private isProcessing of the manager
    initStage,          \* where the initialize() call that creates the model is
    initWaiter,         \* the caller that awaits that initialize() call
    pollTimers,         \* pending setTimeout(checkInitialized, 100), in firing order
    requests,           \* every detectPose call so far, in call order
    inFlight,           \* requests inside poseLandmarker.detectForVideo
    detectLog,          \* the detectForVideo calls made, in order
    modelsCreated,      \* number of initialize() attempts that reached the runtime
    run,                \* the extractFramesAndDetectPoses calls
    \* ---- KeypointVisualizerComponent (keypointVisualizer) ----
    videoElement,       \* TRUE when this.videoElement is set (the player's video)
    canvasElement,      \* id of this.canvasElement, 0 for null
    ctx,                \* id of the canvas this.ctx draws on, 0 for null
    currentVideoId,     \* this.currentVideoId, 0 for null
    keypointData,       \* this.keypointData
    isVisualizationEnabled,
    options,            \* keypointSize, keypointColor, skeletonColor,
                        \* skeletonWidth and visibleBodyParts
    cachedFrames,       \* this.cachedFrames, a Map in insertion order
    \* ---- the renderer's environment ----
    canvasSize,         \* width/height of the current canvas
    pixels,             \* what the current canvas shows
    attached,           \* the canvases appended to the video's parent element
    canvasesCreated,    \* number of canvases created so far
    listenerSets,       \* how many times setupEventListeners has registered
    loads,              \* the initialize() calls suspended in loadKeypointData
    currentTime,        \* videoElement.currentTime
    videoRect,          \* videoElement.getBoundingClientRect()
    poseStore,          \* the keypoint store, per video in primary-key order
    userEvents,         \* number of user events counted so far
    controls,           \* what the panel of keypointVisualizerControls shows
    \* ---- observations ----
    nextStamp,          \* insertions into cachedFrames since it was last cleared
    lastCall,           \* "setOptions" or "toggleBodyPart" when the last step was an
                        \* option change, else "other"
    updateLog,          \* the updateVisualization calls of the last step
    \* ---- videoDB, poseDB keys, PoseProcessorComponent (poseProcessor) ----
    videos,             \* ids of the metadata records in videoDB.videos
    videoBlobs,         \* ids of the records in videoDB.videoBlobs
    videoKey,           \* the last key the ++id of videoDB.videos has given
    adds,               \* ids of the addVideo calls awaiting videoBlobs.add
    keypointIds,        \* the last auto-incremented key of poseDB.keypointData
    procIsProcessing,   \* private isProcessing of the processor component
    proc,               \* the processVideo calls; call k runs extraction k
    lastStore,          \* the storeKeypointData call committed last, if the
                        \* keypoint store has not been changed since
    \* ---- VideoPlayerComponent ----
    plays               \* the playVideo calls so far, in call order

poseVars == << isInitialized, isInitializing, poseLandmarker, config,
               processingQueue, isProcessing, initStage, initWaiter, pollTimers,
               requests, inFlight, detectLog, modelsCreated, run >>

renderVars == << videoElement, canvasElement, ctx, currentVideoId, keypointData,
                 isVisualizationEnabled, options, cachedFrames, canvasSize, pixels,
                 attached, canvasesCreated, listenerSets, loads, currentTime,
                 videoRect, poseStore, userEvents, controls, nextStamp, lastCall,
                 updateLog >>

appVars == << videos, videoBlobs, videoKey, adds, keypointIds, procIsProcessing,
             proc, lastStore, plays >>

vars == << poseVars, renderVars, appVars >>

-----------------------------------------------------------------------------
(* Bounds of the model *)

MaxRequests == 4      \* detectPose calls in one behaviour
MaxInits == 2         \* initialize() attempts that reach the model runtime
MaxDurationSteps == 1 \* longest processed video, in 100 ms steps beyond 200 ms

Runs == {1, 2}        \* two extraction runs, so that runs can overlap
Configs == {1, 2}
ApiTimestamps == {0}
Durations == {200 + 100 * d : d \in 1..MaxDurationSteps}

NoModel == [id |-> 0, cfg |-> 0]
NoWaiter == [kind |-> "none", id |-> 0]
ReqWaiter(r) == [kind |-> "req", id |-> r]
RunWaiter(k) == [kind |-> "run", id |-> k]

Range(s) == {s[i] : i \in 1..Len(s)}
Max(a, b) == IF a >= b THEN a ELSE b

-----------------------------------------------------------------------------
(* PoseDetectionManager *)

FrameRate == 5
FrameIntervalMs == 1000 \div FrameRate

\* Math.ceil((videoEndTime - startTime) / frameInterval)
TotalFrames(startTime, videoEndTime) ==
    ((videoEndTime - startTime) + FrameIntervalMs - 1) \div FrameIntervalMs

\* Math.max(0.001, time), in milliseconds
ClampedTime(time) == Max(1, time)

\* Math.max(1, timestamp * 1000)
AdjustedTimestamp(timestamp) == Max(1, timestamp)

\* The sign of (0 + frameInterval + ... + frameInterval, k terms, in IEEE 754
\* double arithmetic) - (the double nearest to k / 5), for frameInterval = 0.2
\* and k <= 30.
DriftSign(k) ==
    IF k = 3 \/ k >= 14 THEN 1
    ELSE IF k \in 8..11 THEN -1
    ELSE 0

\* time < videoEndTime of the for loop, time being the accumulated sum whose
\* nominal value is `time` milliseconds.
LoopTest(time, videoEndTime) ==
    \/ time < videoEndTime
    \/ time = videoEndTime /\ DriftSign(time \div FrameIntervalMs) < 0

IdleRun == [pc |-> "idle", loaded |-> TRUE, time |-> 0, videoEndTime |-> 0, totalFrames |-> 0,
            processedFrames |-> 0, keypointDataArray |-> << >>,
            progress |-> << >>, req |-> 0]

\* processQueue() with the guard on isProcessing left out.
RECURSIVE ProcessQueueNoGuard(_, _, _)
ProcessQueueNoGuard(q, busy, model) ==
    IF q = << >>
        THEN [queue |-> q, busy |-> busy, start |-> 0, rejected |-> {}]
    ELSE IF model = NoModel
        THEN LET rest == ProcessQueueNoGuard(Tail(q), FALSE, model)
             IN  [rest EXCEPT !.rejected = @ \cup {Head(q)}]
    ELSE [queue |-> Tail(q), busy |-> TRUE, start |-> Head(q), rejected |-> {}]

\* processQueue(): what one call does to the queue and the flag, up to the
\* detectForVideo call it makes (start, 0 for none). A request taken while the
\* model is null is rejected and the finally block calls processQueue again.
RECURSIVE ProcessQueue(_, _, _)
ProcessQueue(q, busy, model) ==
    IF busy \/ q = << >>
        THEN [queue |-> q, busy |-> busy, start |-> 0, rejected |-> {}]
    ELSE IF model = NoModel
        THEN LET rest == ProcessQueue(Tail(q), FALSE, model)
             IN  [rest EXCEPT !.rejected = @ \cup {Head(q)}]
    ELSE [queue |-> Tail(q), busy |-> TRUE, start |-> Head(q), rejected |-> {}]

\* The loop body recording every resolved result, with or without a pose.
RunAfterDetectRecordsAll(rk, resolved, poses) ==
    LET recs == IF resolved THEN Append(rk.keypointDataArray, rk.time)
                ELSE rk.keypointDataArray
        done == IF resolved THEN rk.processedFrames + 1 ELSE rk.processedFrames
        prog == IF resolved THEN Append(rk.progress, done) ELSE rk.progress
        next == rk.time + FrameIntervalMs
    IN  [rk EXCEPT !.keypointDataArray = recs,
                   !.processedFrames = done,
                   !.progress = prog,
                   !.time = next,
                   !.req = 0,
                   !.pc = IF LoopTest(next, rk.videoEndTime) THEN "seeking" ELSE "returned"]

\* The loop body recording the timestamp it passed to detectPose.
RunAfterDetectStoresClamped(rk, resolved, poses) ==
    LET recs == IF resolved /\ poses > 0
                    THEN Append(rk.keypointDataArray, ClampedTime(rk.time))
                    ELSE rk.keypointDataArray
        done == IF resolved THEN rk.processedFrames + 1 ELSE rk.processedFrames
        prog == IF resolved THEN Append(rk.progress, done) ELSE rk.progress
        next == rk.time + FrameIntervalMs
    IN  [rk EXCEPT !.keypointDataArray = recs,
                   !.processedFrames = done,
                   !.progress = prog,
                   !.time = next,
                   !.req = 0,
                   !.pc = IF LoopTest(next, rk.videoEndTime) THEN "seeking" ELSE "returned"]

\* The loop of extractFramesAndDetectPoses after the detection of the instant
\* rk.time has settled: resolved with `poses` pose instances, or rejected.
\* A resolved result is recorded when it has a pose and reported as progress;
\* the catch block only logs. Then time += frameInterval and the loop test.
RunAfterDetect(rk, resolved, poses) ==
    LET recs == IF resolved /\ poses > 0
                    THEN Append(rk.keypointDataArray, rk.time)
                    ELSE rk.keypointDataArray
        done == IF resolved THEN rk.processedFrames + 1 ELSE rk.processedFrames
        prog == IF resolved THEN Append(rk.progress, done) ELSE rk.progress
        next == rk.time + FrameIntervalMs
    IN  [rk EXCEPT !.keypointDataArray = recs,
                   !.processedFrames = done,
                   !.progress = prog,
                   !.time = next,
                   !.req = 0,
                   !.pc = IF LoopTest(next, rk.videoEndTime) THEN "seeking" ELSE "returned"]

\* extractFramesAndDetectPoses once the model is initialized: the totals and
\* the first loop test. When called by processVideo, whose own initialize()
\* call comes first, the test of the video's dimensions is made here.
RunBeginLoop(rk) ==
    IF ~rk.loaded
        THEN [rk EXCEPT !.pc = "failed"]
        ELSE [rk EXCEPT !.time = 0,
                        !.totalFrames = TotalFrames(0, rk.videoEndTime),
                        !.pc = IF LoopTest(0, rk.videoEndTime) THEN "seeking"
                               ELSE "returned"]

\* The requests settled in one step, applied to the runs that await them.
RunsAfter(runs, rejected, resolvedReq, poses) ==
    [k \in Runs |->
        IF runs[k].pc = "detect" /\ runs[k].req \in rejected
            THEN RunAfterDetect(runs[k], FALSE, 0)
        ELSE IF runs[k].pc = "detect" /\ runs[k].req = resolvedReq
            THEN RunAfterDetect(runs[k], TRUE, poses)
        ELSE runs[k]]

\* The effect of one processQueue() call (pq) on the manager, after the request
\* `settled` (0 for none) has been given the state settledSt.
ApplyQueue(pq, reqs, runs, model, settled, settledSt, poses) ==
    /\ processingQueue' = pq.queue
    /\ isProcessing' = pq.busy
    /\ requests' = [i \in 1..Len(reqs) |->
            IF i = pq.start THEN [reqs[i] EXCEPT !.st = "detecting"]
            ELSE IF i \in pq.rejected THEN [reqs[i] EXCEPT !.st = "rejected"]
            ELSE IF i = settled THEN [reqs[i] EXCEPT !.st = settledSt, !.poses = poses]
            ELSE reqs[i]]
    /\ inFlight' = (inFlight \ {settled})
                      \cup (IF pq.start = 0 THEN {} ELSE {pq.start})
    /\ detectLog' = IF pq.start = 0 THEN detectLog
                    ELSE Append(detectLog,
                           [req |-> pq.start,
                            ts |-> AdjustedTimestamp(reqs[pq.start].ts),
                            model |-> model])
    /\ run' = RunsAfter(runs, pq.rejected,
                        IF settledSt = "resolved" THEN settled ELSE 0, poses)

\* detectPose after its initialize() has returned: the null check, the push
\* and the processQueue() call of the promise executor.
EnqueueAndProcess(r, reqs, runs, model) ==
    IF model = NoModel
        THEN /\ requests' = [reqs EXCEPT ![r].st = "rejected"]
             /\ run' = RunsAfter(runs, {r}, 0, 0)
             /\ UNCHANGED << processingQueue, isProcessing, inFlight, detectLog >>
        ELSE ApplyQueue(ProcessQueue(Append(processingQueue, r), isProcessing, model),
                        [reqs EXCEPT ![r].st = "queued", ![r].pushed = TRUE],
                        runs, model, 0, "none", 0)

\* detectPose rejected because its initialize() threw.
RejectWaitingRequest(r) ==
    /\ requests' = [requests EXCEPT ![r].st = "rejected", ![r].initFailed = TRUE]
    /\ run' = RunsAfter(run, {r}, 0, 0)
    /\ UNCHANGED << processingQueue, isProcessing, inFlight, detectLog >>

\* The caller w continues after its initialize() call has returned.
ResumeInitialized(w, model) ==
    IF w.kind = "req"
        THEN EnqueueAndProcess(w.id, requests, run, model)
        ELSE /\ run' = [run EXCEPT ![w.id] = RunBeginLoop(@)]
             /\ UNCHANGED << requests, processingQueue, isProcessing, inFlight,
                             detectLog >>

\* A detectPose that pushes its request although its initialize() call threw.
ResumeFailedEnqueues(w) ==
    IF w.kind = "req"
        THEN ApplyQueue(ProcessQueue(Append(processingQueue, w.id), isProcessing,
                                     poseLandmarker),
                        [requests EXCEPT ![w.id].st = "queued", ![w.id].pushed = TRUE,
                                         ![w.id].initFailed = TRUE],
                        run, poseLandmarker, 0, "none", 0)
        ELSE /\ run' = [run EXCEPT ![w.id].pc = "failed"]
             /\ UNCHANGED << requests, processingQueue, isProcessing, inFlight,
                             detectLog >>

\* The caller w continues after its initialize() call has thrown.
ResumeFailed(w) ==
    IF w.kind = "req"
        THEN RejectWaitingRequest(w.id)
        ELSE /\ run' = [run EXCEPT ![w.id].pc = "failed"]
             /\ UNCHANGED << requests, processingQueue, isProcessing, inFlight,
                             detectLog >>

\* initialize() called by w while isInitialized is false: wait on a 100 ms
\* timer when an initialization is in flight, else start one.
BeginInitialize(w) ==
    /\ isInitializing \/ modelsCreated < MaxInits
    /\ IF isInitializing
        THEN /\ pollTimers' = Append(pollTimers, w)
             /\ UNCHANGED << isInitializing, initStage, initWaiter, modelsCreated >>
        ELSE /\ isInitializing' = TRUE
             /\ initStage' = [stage |-> "vision", cfg |-> 0]
             /\ initWaiter' = w
             /\ modelsCreated' = modelsCreated + 1
             /\ UNCHANGED pollTimers

\* detectPose(frame, timestamp) called by owner (0: a direct caller, k: run k).
\* The request remembers which model creation was in flight when it began to
\* wait (joined, 0 for none), whether it was pushed on the queue, and whether
\* its initialize() call threw.
CallDetectPose(owner, timestamp, runs) ==
    LET r == Len(requests) + 1
        new == [st |-> "new", ts |-> timestamp, owner |-> owner, poses |-> 0,
                joined |-> IF ~isInitialized /\ isInitializing THEN modelsCreated ELSE 0,
                pushed |-> FALSE, initFailed |-> FALSE]
    IN  /\ IF isInitialized
            THEN /\ EnqueueAndProcess(r, Append(requests, new), runs, poseLandmarker)
                 /\ UNCHANGED << isInitializing, initStage, initWaiter, pollTimers,
                                 modelsCreated >>
            ELSE /\ BeginInitialize(ReqWaiter(r))
                 /\ requests' = Append(requests,
                        [new EXCEPT !.st = IF isInitializing THEN "poll" ELSE "init"])
                 /\ run' = runs
                 /\ UNCHANGED << processingQueue, isProcessing, inFlight, detectLog >>
        /\ UNCHANGED << isInitialized, poseLandmarker, config >>

\* A caller other than the pipeline calls detectPose.
DetectPose(timestamp) ==
    /\ UNCHANGED << renderVars, appVars >>
    /\ Len(requests) < MaxRequests
    /\ CallDetectPose(0, timestamp, run)

\* extractFramesAndDetectPoses(video, 0, undefined, 5, cb) up to its first await.
StartExtract(k, loaded, duration) ==
    /\ UNCHANGED << renderVars, appVars >>
    /\ run[k].pc = "idle"
    /\ \A j \in 1..(k - 1) : run[j].pc # "idle"
    /\ IF ~loaded
        THEN /\ run' = [run EXCEPT ![k].pc = "failed"]
             /\ UNCHANGED << isInitializing, initStage, initWaiter, pollTimers,
                             modelsCreated >>
        ELSE IF isInitialized
        THEN /\ run' = [run EXCEPT ![k] = RunBeginLoop([@ EXCEPT !.videoEndTime = duration])]
             /\ UNCHANGED << isInitializing, initStage, initWaiter, pollTimers,
                             modelsCreated >>
        ELSE /\ BeginInitialize(RunWaiter(k))
             /\ run' = [run EXCEPT ![k].videoEndTime = duration,
                                   ![k].pc = IF isInitializing THEN "poll" ELSE "init"]
    /\ UNCHANGED << isInitialized, poseLandmarker, config, processingQueue,
                    isProcessing, requests, inFlight, detectLog >>

\* The loop submitting the frame without awaiting detectPose: it goes on to
\* the next instant at once.
SeekedNoAwait(k) ==
    /\ UNCHANGED << renderVars, appVars >>
    /\ run[k].pc = "seeking"
    /\ CallDetectPose(k, ClampedTime(run[k].time),
                      [run EXCEPT ![k].time = @ + FrameIntervalMs,
                                  ![k].pc = IF LoopTest(run[k].time + FrameIntervalMs,
                                                        run[k].videoEndTime)
                                               THEN "seeking" ELSE "returned"])

\* The seeked event of run k's video: the frame is drawn and submitted.
Seeked(k) ==
    /\ UNCHANGED << renderVars, appVars >>
    /\ run[k].pc = "seeking"
    /\ CallDetectPose(k, ClampedTime(run[k].time),
                      [run EXCEPT ![k].pc = "detect", ![k].req = Len(requests) + 1])

\* FilesetResolver.forVisionTasks resolves; createFromOptions is called with
\* the configuration fields as they are now.
InitVisionLoaded ==
    /\ UNCHANGED << renderVars, appVars >>
    /\ initStage.stage = "vision"
    /\ initStage' = [stage |-> "create", cfg |-> config]
    /\ UNCHANGED << isInitialized, isInitializing, poseLandmarker, config,
                    processingQueue, isProcessing, initWaiter, pollTimers, requests,
                    inFlight, detectLog, modelsCreated, run >>

\* createFromOptions resolves: the flags are set and the awaiting caller continues.
InitSucceed ==
    /\ UNCHANGED << renderVars, appVars >>
    /\ initStage.stage = "create"
    /\ LET model == [id |-> modelsCreated, cfg |-> initStage.cfg]
       IN  /\ poseLandmarker' = model
           /\ ResumeInitialized(initWaiter, model)
    /\ isInitialized' = TRUE
    /\ isInitializing' = FALSE
    /\ initStage' = [stage |-> "none", cfg |-> 0]
    /\ initWaiter' = NoWaiter
    /\ UNCHANGED << config, pollTimers, modelsCreated >>

\* Either await of initialize() rejects: the catch block.
InitFail ==
    /\ UNCHANGED << renderVars, appVars >>
    /\ initStage.stage \in {"vision", "create"}
    /\ isInitializing' = FALSE
    /\ initStage' = [stage |-> "none", cfg |-> 0]
    /\ initWaiter' = NoWaiter
    /\ ResumeFailed(initWaiter)
    /\ UNCHANGED << isInitialized, poseLandmarker, config, pollTimers, modelsCreated >>

\* checkInitialized of the oldest pending timer.
PollFire ==
    /\ UNCHANGED << renderVars, appVars >>
    /\ pollTimers # << >>
    /\ LET w == Head(pollTimers)
       IN  IF isInitialized
               THEN /\ pollTimers' = Tail(pollTimers)
                    /\ ResumeInitialized(w, poseLandmarker)
           ELSE IF ~isInitializing
               THEN /\ pollTimers' = Tail(pollTimers)
                    /\ ResumeFailed(w)
           ELSE /\ pollTimers' = Append(Tail(pollTimers), w)
                /\ UNCHANGED << requests, processingQueue, isProcessing, inFlight,
                                detectLog, run >>
    /\ UNCHANGED << isInitialized, isInitializing, poseLandmarker, config, initStage,
                    initWaiter, modelsCreated >>

\* detectForVideo returns for request r: resolve(result), then the finally block.
DetectReturn(r, poses) ==
    /\ UNCHANGED << renderVars, appVars >>
    /\ r \in inFlight
    /\ ApplyQueue(ProcessQueue(processingQueue, FALSE, poseLandmarker),
                  requests, run, poseLandmarker, r, "resolved", poses)
    /\ UNCHANGED << isInitialized, isInitializing, poseLandmarker, config, initStage,
                    initWaiter, pollTimers, modelsCreated >>

\* detectForVideo throws for request r: the catch block logs, then the finally
\* block; neither resolve nor reject is called.
DetectThrow(r) ==
    /\ UNCHANGED << renderVars, appVars >>
    /\ r \in inFlight
    /\ ApplyQueue(ProcessQueue(processingQueue, FALSE, poseLandmarker),
                  requests, run, poseLandmarker, r, "unsettled", 0)
    /\ UNCHANGED << isInitialized, isInitializing, poseLandmarker, config, initStage,
                    initWaiter, pollTimers, modelsCreated >>

\* configure(config)
Configure(c) ==
    /\ UNCHANGED << renderVars, appVars >>
    /\ config' = c
    /\ IF isInitialized
        THEN isInitialized' = FALSE /\ poseLandmarker' = NoModel
        ELSE UNCHANGED << isInitialized, poseLandmarker >>
    /\ UNCHANGED << isInitializing, processingQueue, isProcessing, initStage,
                    initWaiter, pollTimers, requests, inFlight, detectLog,
                    modelsCreated, run >>

-----------------------------------------------------------------------------
(* KeypointVisualizerComponent *)

MaxTimeIdx == 2       \* playback times 200, 250, ..., 200 + 50 * MaxTimeIdx (milliseconds)
MaxInitializes == 2   \* initialize() calls in one behaviour
MaxRecords == 1       \* keypoint records stored for video 1

maxCachedFrames == 100
MatchTolerance == 200
CacheTolerance == 50

VideoIds == {1}
Times == {200 + 50 * i : i \in 0..MaxTimeIdx}
RecordTimes == {0, 300}
Sizes == {320, 640}

Abs(x) == IF x < 0 THEN -x ELSE x

NoRecord == [id |-> 0, videoId |-> 0, timestamp |-> 0]

DefaultOptions ==
    [keypointSize |-> 6, keypointColor |-> "#4a90e2", skeletonColor |-> "#4a90e2",
     skeletonWidth |-> 2,
     visibleBodyParts |-> [face |-> TRUE, torso |-> TRUE, arms |-> TRUE, legs |-> TRUE]]

\* A cleared canvas, and the canvas after drawKeypoints: the rasterized image is
\* a function of the record drawn, of the options and of the canvas size.
Blank == [kind |-> "blank"]
Draw(record, opts, size) == [kind |-> "pose", rec |-> record, opts |-> opts, size |-> size]

\* The 33 landmarks of a pose, and the connector list of drawSkeleton.
Joints == 0..32
Connections ==
    { <<0, 1>>, <<1, 2>>, <<2, 3>>, <<3, 7>>, <<0, 4>>, <<4, 5>>, <<5, 6>>, <<6, 8>>,
      <<9, 10>>, <<11, 12>>, <<11, 13>>, <<13, 15>>, <<12, 14>>, <<14, 16>>,
      <<11, 23>>, <<12, 24>>, <<23, 25>>, <<24, 26>>, <<25, 27>>, <<26, 28>>,
      <<27, 29>>, <<28, 30>>, <<29, 31>>, <<30, 32>>,
      <<15, 17>>, <<17, 19>>, <<19, 21>>, <<16, 18>>, <<18, 20>>, <<20, 22>> }

\* A landmark's visibility confidence, in hundredths.
Confidences == {0, 49, 50, 100}

\* isBodyPartVisible with the legs branch tested before the arms branch.
IsBodyPartVisibleLegsFirst(index, parts) ==
    IF index >= 0 /\ index <= 10 THEN parts.face
    ELSE IF index >= 11 /\ index <= 16 THEN parts.torso
    ELSE IF index >= 23 /\ index <= 32 THEN parts.legs
    ELSE IF index >= 17 /\ index <= 22 THEN parts.arms
    ELSE TRUE

\* isBodyPartVisible(index): the branches in the order of the code.
IsBodyPartVisible(index, parts) ==
    IF index >= 0 /\ index <= 10 THEN parts.face
    ELSE IF index >= 11 /\ index <= 16 THEN parts.torso
    ELSE IF (index >= 17 /\ index <= 22) \/ (index >= 23 /\ index <= 32) THEN parts.arms
    ELSE IF index >= 23 /\ index <= 32 THEN parts.legs
    ELSE TRUE

\* drawKeypoints: the landmark index is filled unless its confidence is below
\* 0.5 or its body part is hidden.
JointDrawn(index, visibility, parts) ==
    ~(visibility < 50 \/ ~IsBodyPartVisible(index, parts))

\* drawSkeleton stroking a line as soon as one of its ends passes the tests.
ConnectorDrawnEitherEnd(i, j, vi, vj, parts) ==
    \/ IsBodyPartVisible(i, parts) /\ vi >= 50
    \/ IsBodyPartVisible(j, parts) /\ vj >= 50

\* drawSkeleton: the line i-j is stroked unless a body part of an end is
\* hidden or the confidence of an end is below 0.5.
ConnectorDrawn(i, j, vi, vj, parts) ==
    /\ ~(~IsBodyPartVisible(i, parts) \/ ~IsBodyPartVisible(j, parts))
    /\ ~(vi < 50 \/ vj < 50)

\* The keypoint stores considered: video 1 holds any sequence of at most
\* MaxRecords records (in primary-key order, timestamps in any order), any
\* other video holds one record.
RecordSeqs ==
    UNION {[1..n -> RecordTimes] : n \in 0..MaxRecords}
StoreOf(ts1) ==
    [v \in VideoIds |->
        IF v = 1
            THEN [i \in 1..Len(ts1) |-> [id |-> i, videoId |-> 1, timestamp |-> ts1[i]]]
            ELSE << [id |-> 10, videoId |-> 2, timestamp |-> 200] >>]

\* Array.prototype.sort((a, b) => a.timestamp - b.timestamp): a stable sort.
RECURSIVE InsertByTimestamp(_, _)
InsertByTimestamp(sorted, r) ==
    IF sorted = << >> THEN << r >>
    ELSE IF sorted[Len(sorted)].timestamp <= r.timestamp THEN Append(sorted, r)
    ELSE Append(InsertByTimestamp(SubSeq(sorted, 1, Len(sorted) - 1), r),
                sorted[Len(sorted)])

RECURSIVE SortByTimestamp(_)
SortByTimestamp(data) ==
    IF data = << >> THEN << >>
    ELSE InsertByTimestamp(SortByTimestamp(SubSeq(data, 1, Len(data) - 1)),
                           data[Len(data)])

\* The loop of findClosestKeypointData from element i on: closest is NoRecord
\* while minDiff is still Number.MAX_VALUE.
RECURSIVE FindScan(_, _, _, _, _)
FindScan(data, i, time, closest, minDiff) ==
    IF i > Len(data) THEN [closest |-> closest, minDiff |-> minDiff]
    ELSE LET diff == Abs(data[i].timestamp - time)
         IN  IF closest = NoRecord \/ diff < minDiff
                 THEN FindScan(data, i + 1, time, data[i], diff)
                 ELSE FindScan(data, i + 1, time, closest, minDiff)

\* The scan with the tolerance test left out.
FindClosestNoTolerance(data, time) ==
    IF Len(data) = 0 THEN NoRecord
    ELSE FindScan(data, 1, time, NoRecord, 0).closest

\* findClosestKeypointData(time); NoRecord for undefined.
FindClosestKeypointData(data, time) ==
    IF Len(data) = 0 THEN NoRecord
    ELSE LET found == FindScan(data, 1, time, NoRecord, 0)
         IN  IF found.closest # NoRecord /\ found.minDiff <= MatchTolerance
                 THEN found.closest
                 ELSE NoRecord

\* getCachedFrame accepting only a frame cached for exactly this time.
GetCachedFrameExact(cache, time) ==
    LET same == {i \in 1..Len(cache) : cache[i].time = time}
    IN  IF same = {} THEN 0 ELSE CHOOSE i \in same : \A j \in same : i <= j

\* getCachedFrame with the tolerance of the record matching.
GetCachedFrameWide(cache, time) ==
    LET near == {i \in 1..Len(cache) : Abs(cache[i].time - time) <= MatchTolerance}
    IN  IF near = {} THEN 0 ELSE CHOOSE i \in near : \A j \in near : i <= j

\* getCachedFrame(time): the index of the first entry, in insertion order,
\* within the tolerance; 0 for undefined.
GetCachedFrame(cache, time) ==
    LET near == {i \in 1..Len(cache) : Abs(cache[i].time - time) <= CacheTolerance}
    IN  IF near = {} THEN 0 ELSE CHOOSE i \in near : \A j \in near : i <= j

\* cacheFrame with the size limit left out.
CacheFrameNoLimit(cache, time, image, stamp) ==
    Append(cache, [time |-> time, image |-> image, stamp |-> stamp, served |-> FALSE])

\* cacheFrame evicting the entry inserted last.
CacheFrameEvictNewest(cache, time, image, stamp) ==
    LET kept == IF Len(cache) >= maxCachedFrames
                    THEN SubSeq(cache, 1, Len(cache) - 1) ELSE cache
    IN  Append(kept, [time |-> time, image |-> image, stamp |-> stamp, served |-> FALSE])

\* cacheFrame(time): Map.delete of the first key when the Map is full, then
\* Map.set, which keeps the place of a key already present.
CacheFrame(cache, time, image, stamp) ==
    LET kept == IF Len(cache) >= maxCachedFrames THEN Tail(cache) ELSE cache
        entry == [time |-> time, image |-> image, stamp |-> stamp, served |-> FALSE]
        same == {i \in 1..Len(kept) : kept[i].time = time}
    IN  IF same = {} THEN Append(kept, entry)
        ELSE [i \in 1..Len(kept) |-> IF i \in same THEN entry ELSE kept[i]]

\* The renderer fields a handler works on: what the canvas shows, the cache,
\* and the log of the updateVisualization calls made.
RenderState ==
    [pixels |-> pixels, cachedFrames |-> cachedFrames, nextStamp |-> nextStamp,
     log |-> << >>]

Commit(rs) ==
    /\ pixels' = rs.pixels
    /\ cachedFrames' = rs.cachedFrames
    /\ nextStamp' = rs.nextStamp
    /\ updateLog' = rs.log

\* The fields a handler reads.
Env == [videoElement |-> videoElement, ctx |-> ctx, canvasElement |-> canvasElement,
        enabled |-> isVisualizationEnabled, time |-> currentTime,
        data |-> keypointData, opts |-> options, size |-> canvasSize]

\* clearCanvas()
ClearCanvas(rs, env) ==
    IF env.ctx = 0 \/ env.canvasElement = 0 THEN rs ELSE [rs EXCEPT !.pixels = Blank]

\* this.cachedFrames.clear()
ClearCache(rs) == [rs EXCEPT !.cachedFrames = << >>, !.nextStamp = 0]

Logged(rs, env, kind, before) ==
    [rs EXCEPT !.log = Append(@, [time |-> env.time, kind |-> kind, before |-> before,
                                  after |-> rs.cachedFrames, shown |-> rs.pixels])]

\* updateVisualization() past its guard, without the clearCanvas() that
\* precedes the matching.
RenderFrameKeepsCanvas(rs, env) ==
    LET hit == GetCachedFrame(rs.cachedFrames, env.time)
        keypoint == FindClosestKeypointData(env.data, env.time)
        image == Draw(keypoint, env.opts, env.size)
    IN  IF hit # 0
            THEN Logged([rs EXCEPT !.pixels = rs.cachedFrames[hit].image,
                                   !.cachedFrames[hit].served = TRUE],
                        env, "hit", rs.cachedFrames)
        ELSE IF keypoint = NoRecord
            THEN Logged(rs, env, "cleared", rs.cachedFrames)
        ELSE Logged([rs EXCEPT !.pixels = image,
                               !.cachedFrames = CacheFrame(rs.cachedFrames, env.time,
                                                           image, rs.nextStamp + 1),
                               !.nextStamp = rs.nextStamp + 1],
                    env, "drawn", rs.cachedFrames)

\* updateVisualization() past its guard: a cached frame within the tolerance is
\* put on the canvas; else the canvas is cleared, the closest record is looked
\* up and, when there is one, drawn and the canvas cached.
RenderFrame(rs, env) ==
    LET hit == GetCachedFrame(rs.cachedFrames, env.time)
        keypoint == FindClosestKeypointData(env.data, env.time)
        image == Draw(keypoint, env.opts, env.size)
    IN  IF hit # 0
            THEN Logged([rs EXCEPT !.pixels = rs.cachedFrames[hit].image,
                                   !.cachedFrames[hit].served = TRUE],
                        env, "hit", rs.cachedFrames)
        ELSE IF keypoint = NoRecord
            THEN Logged([rs EXCEPT !.pixels = Blank], env, "cleared", rs.cachedFrames)
        ELSE Logged([rs EXCEPT !.pixels = image,
                               !.cachedFrames = CacheFrame(rs.cachedFrames, env.time,
                                                           image, rs.nextStamp + 1),
                               !.nextStamp = rs.nextStamp + 1],
                    env, "drawn", rs.cachedFrames)

\* updateVisualization() without the test of isVisualizationEnabled.
UpdateVisualizationAlways(rs, env) ==
    IF ~env.videoElement \/ env.ctx = 0 \/ env.canvasElement = 0
        THEN Logged(rs, env, "skipped", rs.cachedFrames)
        ELSE RenderFrame(rs, env)

\* updateVisualization()
UpdateVisualization(rs, env) ==
    IF ~env.videoElement \/ env.ctx = 0 \/ env.canvasElement = 0 \/ ~env.enabled
        THEN Logged(rs, env, "skipped", rs.cachedFrames)
        ELSE RenderFrame(rs, env)

\* The handler of an event runs once for every registration.
RECURSIVE UpdateTimes(_, _, _)
UpdateTimes(n, rs, env) ==
    IF n = 0 THEN rs ELSE UpdateTimes(n - 1, UpdateVisualization(rs, env), env)

\* resizeCanvas() without this.cachedFrames.clear().
ResizeCanvasKeepsCache(rs, env) ==
    IF ~env.videoElement \/ env.canvasElement = 0 THEN rs
    ELSE [rs EXCEPT !.pixels = Blank]

\* resizeCanvas(): assigning the canvas size also resets what it shows.
ResizeCanvas(rs, env) ==
    IF ~env.videoElement \/ env.canvasElement = 0 THEN rs
    ELSE ClearCache([rs EXCEPT !.pixels = Blank])

\* { ...this.visibleBodyParts, ...options.visibleBodyParts }
Merge(old, new) ==
    [k \in DOMAIN old \cup DOMAIN new |-> IF k \in DOMAIN new THEN new[k] ELSE old[k]]

\* The option fields after setOptions(patch): a field absent from patch is undefined.
PatchedOptions(opts, patch) ==
    [keypointSize |-> IF "keypointSize" \in DOMAIN patch
                          THEN patch.keypointSize ELSE opts.keypointSize,
     keypointColor |-> IF "keypointColor" \in DOMAIN patch
                          THEN patch.keypointColor ELSE opts.keypointColor,
     skeletonColor |-> IF "skeletonColor" \in DOMAIN patch
                          THEN patch.skeletonColor ELSE opts.skeletonColor,
     skeletonWidth |-> IF "skeletonWidth" \in DOMAIN patch
                          THEN patch.skeletonWidth ELSE opts.skeletonWidth,
     visibleBodyParts |-> IF "visibleBodyParts" \in DOMAIN patch
                          THEN Merge(opts.visibleBodyParts, patch.visibleBodyParts)
                          ELSE opts.visibleBodyParts]

\* The calls the controls make, and one call that sets two fields at once.
OptionPatches ==
    { [keypointSize |-> 8], [keypointSize |-> 6],
      [isEnabled |-> TRUE], [isEnabled |-> FALSE],
      [isEnabled |-> TRUE, keypointSize |-> 8] }
BodyPartArgs == {"arms", "hands"}

\* setOptions(options)
SetOptions(patch) ==
    LET opts1 == PatchedOptions(options, patch)
        en1 == IF "isEnabled" \in DOMAIN patch THEN patch.isEnabled
               ELSE isVisualizationEnabled
        env1 == [Env EXCEPT !.opts = opts1, !.enabled = en1]
        rs1 == IF "isEnabled" \in DOMAIN patch
                   THEN IF ~en1 THEN ClearCanvas(RenderState, env1)
                        ELSE UpdateVisualization(RenderState, env1)
                   ELSE RenderState
    IN  /\ options' = opts1
        /\ isVisualizationEnabled' = en1
        /\ Commit(UpdateVisualization(ClearCache(rs1), env1))
        /\ lastCall' = "setOptions"
        /\ UNCHANGED << videoElement, canvasElement, ctx, currentVideoId, keypointData,
                        canvasSize, attached, canvasesCreated, listenerSets, loads,
                        currentTime, videoRect, poseStore >>
        /\ UNCHANGED << poseVars, appVars >>

\* toggleBodyPart(bodyPart, isVisible)
ToggleBodyPart(bodyPart, isVisible) ==
    /\ IF bodyPart \in DOMAIN options.visibleBodyParts
        THEN LET opts1 == [options EXCEPT !.visibleBodyParts[bodyPart] = isVisible]
             IN  /\ options' = opts1
                 /\ Commit(UpdateVisualization(ClearCache(RenderState),
                                               [Env EXCEPT !.opts = opts1]))
                 /\ lastCall' = "toggleBodyPart"
        ELSE /\ Commit(RenderState)
             /\ lastCall' = "other"
             /\ UNCHANGED options
    /\ UNCHANGED << videoElement, canvasElement, ctx, currentVideoId, keypointData,
                    isVisualizationEnabled, canvasSize, attached, canvasesCreated,
                    listenerSets, loads, currentTime, videoRect, poseStore >>
    /\ UNCHANGED << poseVars, appVars >>

\* initialize(videoElement, container, videoId) up to the await of
\* loadKeypointData: the fields are set and createCanvasOverlay() appends a new
\* canvas, sized by resizeCanvas(), to the video's parent.
InitializeOverlay(videoId) ==
    /\ canvasesCreated < MaxInitializes
    /\ LET c == canvasesCreated + 1
       IN  /\ canvasElement' = c
           /\ ctx' = c
           /\ attached' = attached \cup {c}
           /\ canvasesCreated' = c
           /\ loads' = loads \cup {[call |-> c, videoId |-> videoId, stage |-> "has"]}
    /\ videoElement' = TRUE
    /\ currentVideoId' = videoId
    /\ canvasSize' = videoRect
    /\ Commit(ClearCache([RenderState EXCEPT !.pixels = Blank]))
    /\ lastCall' = "other"
    /\ UNCHANGED << keypointData, isVisualizationEnabled, options, listenerSets,
                    currentTime, videoRect, poseStore >>

Initialize(videoId) ==
    /\ InitializeOverlay(videoId)
    /\ UNCHANGED << poseVars, appVars >>

\* setupEventListeners()
SetupEventListeners ==
    listenerSets' = IF videoElement THEN listenerSets + 1 ELSE listenerSets

\* poseDB.hasKeypointData resolves in loadKeypointData: without data the load
\* returns and initialize() goes on to setupEventListeners().
LoadHasData(l) ==
    /\ l \in loads
    /\ l.stage = "has"
    /\ IF poseStore[l.videoId] = << >>
        THEN /\ loads' = loads \ {l}
             /\ SetupEventListeners
        ELSE /\ loads' = (loads \ {l}) \cup {[l EXCEPT !.stage = "get"]}
             /\ UNCHANGED listenerSets
    /\ Commit(RenderState)
    /\ lastCall' = "other"
    /\ UNCHANGED << videoElement, canvasElement, ctx, currentVideoId, keypointData,
                    isVisualizationEnabled, options, canvasSize, attached,
                    canvasesCreated, currentTime, videoRect, poseStore >>
    /\ UNCHANGED << poseVars, appVars >>

\* poseDB.getKeypointData resolves: the records are kept, sorted by timestamp,
\* and initialize() goes on to setupEventListeners().
LoadGetData(l) ==
    /\ l \in loads
    /\ l.stage = "get"
    /\ loads' = loads \ {l}
    /\ keypointData' = SortByTimestamp(poseStore[l.videoId])
    /\ SetupEventListeners
    /\ Commit(RenderState)
    /\ lastCall' = "other"
    /\ UNCHANGED << videoElement, canvasElement, ctx, currentVideoId,
                    isVisualizationEnabled, options, canvasSize, attached,
                    canvasesCreated, currentTime, videoRect, poseStore >>
    /\ UNCHANGED << poseVars, appVars >>

\* A call of the keypoint store rejects: the catch block of loadKeypointData
\* logs, and initialize() goes on to setupEventListeners().
LoadError(l) ==
    /\ l \in loads
    /\ loads' = loads \ {l}
    /\ SetupEventListeners
    /\ Commit(RenderState)
    /\ lastCall' = "other"
    /\ UNCHANGED << videoElement, canvasElement, ctx, currentVideoId, keypointData,
                    isVisualizationEnabled, options, canvasSize, attached,
                    canvasesCreated, currentTime, videoRect, poseStore >>
    /\ UNCHANGED << poseVars, appVars >>

\* dispose(): removeEventListener is given functions that were never
\* registered, so the registrations stay.
DisposeOverlay ==
    /\ IF ~videoElement
        THEN /\ Commit(RenderState)
             /\ UNCHANGED << videoElement, canvasElement, ctx, keypointData,
                             canvasSize, attached >>
        ELSE /\ attached' = attached \ {canvasElement}
             /\ videoElement' = FALSE
             /\ canvasElement' = 0
             /\ ctx' = 0
             /\ canvasSize' = 0
             /\ keypointData' = << >>
             /\ Commit(ClearCache([RenderState EXCEPT !.pixels = Blank]))
    /\ lastCall' = "other"
    /\ UNCHANGED << currentVideoId, isVisualizationEnabled, options, canvasesCreated,
                    listenerSets, loads, currentTime, videoRect, poseStore >>

Dispose ==
    /\ DisposeOverlay
    /\ UNCHANGED << poseVars, appVars >>

\* What every event leaves alone.
EventFrame ==
    /\ UNCHANGED << videoElement, canvasElement, ctx, currentVideoId, keypointData,
                    isVisualizationEnabled, options, attached, canvasesCreated,
                    listenerSets, loads, poseStore >>
    /\ UNCHANGED << poseVars, appVars >>

\* Playback reaches time t and the timeupdate event fires.
TimeUpdate(t) ==
    /\ currentTime' = t
    /\ Commit(UpdateTimes(listenerSets, RenderState, [Env EXCEPT !.time = t]))
    /\ lastCall' = "other"
    /\ UNCHANGED << canvasSize, videoRect >>
    /\ EventFrame

\* Playback moves on to time t between two events.
PlaybackAdvance(t) ==
    /\ currentTime' = t
    /\ Commit(RenderState)
    /\ lastCall' = "other"
    /\ UNCHANGED << canvasSize, videoRect >>
    /\ EventFrame

\* The pause event.
Pause ==
    /\ Commit(UpdateTimes(listenerSets, RenderState, Env))
    /\ lastCall' = "other"
    /\ UNCHANGED << canvasSize, videoRect, currentTime >>
    /\ EventFrame

\* The ended event.
Ended ==
    /\ Commit(IF listenerSets > 0 THEN ClearCanvas(RenderState, Env) ELSE RenderState)
    /\ lastCall' = "other"
    /\ UNCHANGED << canvasSize, videoRect, currentTime >>
    /\ EventFrame

\* The user moves playback to time t: the seeking event.
Seeking(t) ==
    /\ currentTime' = t
    /\ Commit(IF listenerSets > 0 THEN ClearCanvas(RenderState, Env) ELSE RenderState)
    /\ lastCall' = "other"
    /\ UNCHANGED << canvasSize, videoRect >>
    /\ EventFrame

\* The seeked event.
SeekedEvent ==
    /\ Commit(UpdateTimes(listenerSets, RenderState, Env))
    /\ lastCall' = "other"
    /\ UNCHANGED << canvasSize, videoRect, currentTime >>
    /\ EventFrame

\* The layout box of the video changes (no event of its own).
LayoutChange(size) ==
    /\ videoRect' = size
    /\ Commit(RenderState)
    /\ lastCall' = "other"
    /\ UNCHANGED << canvasSize, currentTime >>
    /\ EventFrame

\* The handlers of the window's resize and of the video's loadedmetadata
\* event: resizeCanvas().
ResizeHandlers ==
    /\ Commit(IF listenerSets > 0 THEN ResizeCanvas(RenderState, Env) ELSE RenderState)
    /\ canvasSize' = IF listenerSets > 0 /\ videoElement /\ canvasElement # 0
                         THEN videoRect ELSE canvasSize
    /\ UNCHANGED << videoRect, currentTime >>
    /\ EventFrame

WindowResize ==
    /\ ResizeHandlers
    /\ lastCall' = "other"

LoadedMetadata ==
    /\ ResizeHandlers
    /\ lastCall' = "other"

\* KeypointVisualizerControlsComponent: no panel (as constructed, and after
\* dispose()), and the panel createControls() builds, with the initial value
\* given to each control.
NoControls == [present |-> FALSE]
CreateControls ==
    [present |-> TRUE, isEnabled |-> TRUE,
     options |-> [keypointSize |-> 6, keypointColor |-> "#4a90e2",
                  skeletonColor |-> "#4a90e2", skeletonWidth |-> 2,
                  visibleBodyParts |-> [face |-> TRUE, torso |-> TRUE,
                                        arms |-> TRUE, legs |-> TRUE]]]

\* The user changes a region checkbox of the panel: its change handler calls
\* keypointVisualizer.toggleBodyPart.
ChangeToggle(bodyPart, isChecked) ==
    /\ controls.present
    /\ controls.options.visibleBodyParts[bodyPart] # isChecked
    /\ controls' = [controls EXCEPT !.options.visibleBodyParts[bodyPart] = isChecked]
    /\ ToggleBodyPart(bodyPart, isChecked)

\* The user changes the enabling checkbox or the size slider of the panel:
\* the handler calls keypointVisualizer.setOptions with that one field.
ChangeOption(patch) ==
    /\ controls.present
    /\ controls' =
          [controls EXCEPT
              !.isEnabled = IF "isEnabled" \in DOMAIN patch THEN patch.isEnabled ELSE @,
              !.options = PatchedOptions(@, patch)]
    /\ controls' # controls
    /\ SetOptions(patch)

\* The renderer as constructed, over a keypoint store, with nothing played yet.
RenderInit(store) ==
    /\ videoElement = FALSE
    /\ canvasElement = 0
    /\ ctx = 0
    /\ currentVideoId = 0
    /\ keypointData = << >>
    /\ isVisualizationEnabled = TRUE
    /\ options = DefaultOptions
    /\ cachedFrames = << >>
    /\ canvasSize = 0
    /\ pixels = Blank
    /\ attached = {}
    /\ canvasesCreated = 0
    /\ listenerSets = 0
    /\ loads = {}
    /\ currentTime = 0
    /\ videoRect = 320
    /\ poseStore = store
    /\ userEvents = 0
    /\ controls = NoControls
    /\ nextStamp = 0
    /\ lastCall = "other"
    /\ updateLog = << >>

RenderIdle == RenderInit(StoreOf(<< >>))

-----------------------------------------------------------------------------
(* VideoDB, PoseDB, VideoListComponent *)

NoStore == [videoId |-> 0, data |-> << >>, before |-> << >>]
IdleProc == [pc |-> "idle", videoId |-> 0, cancelled |-> FALSE]

AppIdle ==
    /\ videos = VideoIds
    /\ videoBlobs = VideoIds
    /\ videoKey = 2
    /\ adds = {}
    /\ keypointIds = 0
    /\ procIsProcessing = FALSE
    /\ proc = [k \in Runs |-> IdleProc]
    /\ lastStore = NoStore
    /\ plays = << >>

MaxKeypointIds == 4   \* keypoint records added in one behaviour

AllVideoIds == {1, 2}
StoreTimes == {0, 200}
StoreData == UNION {[1..n -> StoreTimes] : n \in 0..2}

\* storeKeypointData that adds the new records without deleting the old ones.
StoredRecordsKeepOld(old, videoId, data, lastId) ==
    old \o [i \in 1..Len(data) |->
               [id |-> lastId + i, videoId |-> videoId, timestamp |-> data[i]]]

\* The records of videoId after the transaction of storeKeypointData: those
\* it had (old) are deleted, and the new ones are added under fresh keys.
StoredRecords(old, videoId, data, lastId) ==
    [i \in 1..Len(data) |->
        [id |-> lastId + i, videoId |-> videoId, timestamp |-> data[i]]]

\* The 'rw' transaction of storeKeypointData, data being the timestamps of
\* keypointData.
StoreTransaction(videoId, data) ==
    /\ poseStore' = [poseStore EXCEPT
           ![videoId] = StoredRecords(@, videoId, data, keypointIds)]
    /\ keypointIds' = keypointIds + Len(data)
    /\ lastStore' = [videoId |-> videoId, data |-> data, before |-> poseStore]

\* poseDB.storeKeypointData(videoId, keypointData): it throws when videoDB has
\* no such video.
StoreKeypointData(videoId, data) ==
    IF videoId \notin videos
        THEN UNCHANGED << poseStore, keypointIds, lastStore >>
        ELSE StoreTransaction(videoId, data)

\* What the operations on the databases leave alone in the renderer and in
\* the player.
RendererUnchanged ==
    UNCHANGED << videoElement, canvasElement, ctx, currentVideoId, keypointData,
                 isVisualizationEnabled, options, cachedFrames, canvasSize, pixels,
                 attached, canvasesCreated, listenerSets, loads, currentTime,
                 videoRect, userEvents, controls, nextStamp, lastCall, updateLog,
                 plays >>

\* A call of poseDB.storeKeypointData.
StoreCall(videoId, data) ==
    /\ keypointIds + Len(data) <= MaxKeypointIds
    /\ StoreKeypointData(videoId, data)
    /\ RendererUnchanged
    /\ UNCHANGED << videos, videoBlobs, videoKey, adds, procIsProcessing, proc >>
    /\ UNCHANGED poseVars

\* poseDB.deleteKeypointData(videoId)
DeleteKeypointData(videoId) ==
    /\ poseStore' = [poseStore EXCEPT ![videoId] = << >>]
    /\ lastStore' = NoStore
    /\ RendererUnchanged
    /\ UNCHANGED << videos, videoBlobs, videoKey, adds, keypointIds, procIsProcessing, proc >>
    /\ UNCHANGED poseVars

\* VideoListComponent.deleteVideo(videoId), confirmed by the user:
\* videoDB.deleteVideo removes the metadata and the blob.
DeleteVideo(videoId) ==
    /\ videoId \in videos
    /\ videos' = videos \ {videoId}
    /\ videoBlobs' = videoBlobs \ {videoId}
    /\ UNCHANGED << videoKey, adds >>
    /\ RendererUnchanged
    /\ UNCHANGED << poseStore, keypointIds, procIsProcessing, proc, lastStore >>
    /\ UNCHANGED poseVars

MaxVideoKey == 3   \* keys the auto-increment of videoDB.videos gives

\* addVideo(file) up to the await of videoBlobs.add: videos.add(metadata) has
\* committed in a transaction of its own and has given the next key.
AddVideo ==
    /\ videoKey < MaxVideoKey
    /\ videoKey' = videoKey + 1
    /\ videos' = videos \cup {videoKey + 1}
    /\ adds' = adds \cup {videoKey + 1}
    /\ UNCHANGED videoBlobs
    /\ RendererUnchanged
    /\ UNCHANGED << poseStore, keypointIds, procIsProcessing, proc, lastStore >>
    /\ UNCHANGED poseVars

\* videoBlobs.add({ id, blob }) resolves and addVideo returns the id.
AddBlobStored(id) ==
    /\ id \in adds
    /\ videoBlobs' = videoBlobs \cup {id}
    /\ adds' = adds \ {id}
    /\ UNCHANGED << videos, videoKey >>
    /\ RendererUnchanged
    /\ UNCHANGED << poseStore, keypointIds, procIsProcessing, proc, lastStore >>
    /\ UNCHANGED poseVars

\* videoBlobs.add rejects (the quota is exceeded, say): the catch block of
\* addVideo logs and rethrows.
AddBlobFailed(id) ==
    /\ id \in adds
    /\ adds' = adds \ {id}
    /\ UNCHANGED << videos, videoBlobs, videoKey >>
    /\ RendererUnchanged
    /\ UNCHANGED << poseStore, keypointIds, procIsProcessing, proc, lastStore >>
    /\ UNCHANGED poseVars

-----------------------------------------------------------------------------
(* PoseProcessorComponent *)

ActiveStages == {"hasData", "blob", "loading", "extracting", "storing"}

\* What the steps of processVideo before its initialize() call leave alone.
ManagerUnchanged == UNCHANGED poseVars

\* processVideo(videoId), the k-th call that passes the isProcessing guard, up
\* to the await of hasKeypointData.
ProcessVideo(k, videoId) ==
    /\ ~procIsProcessing
    /\ proc[k].pc = "idle"
    /\ \A j \in 1..(k - 1) : proc[j].pc # "idle"
    /\ procIsProcessing' = TRUE
    /\ proc' = [proc EXCEPT ![k] = [pc |-> "hasData", videoId |-> videoId,
                                    cancelled |-> FALSE]]
    /\ UNCHANGED << videos, videoBlobs, videoKey, adds, keypointIds, lastStore, poseStore >>
    /\ RendererUnchanged
    /\ ManagerUnchanged

\* hasKeypointData resolves; when there is data the user is asked whether to
\* process again.
HasDataResolved(k, shouldReprocess) ==
    /\ proc[k].pc = "hasData"
    /\ IF poseStore[proc[k].videoId] # << >> /\ ~shouldReprocess
        THEN /\ proc' = [proc EXCEPT ![k].pc = "declined"]
             /\ procIsProcessing' = FALSE
        ELSE /\ proc' = [proc EXCEPT ![k].pc = "blob"]
             /\ UNCHANGED procIsProcessing
    /\ UNCHANGED << videos, videoBlobs, videoKey, adds, keypointIds, lastStore, poseStore >>
    /\ RendererUnchanged
    /\ ManagerUnchanged

\* getVideoBlob resolves: without a blob processVideo throws, and its catch
\* and finally blocks run.
BlobResolved(k) ==
    /\ proc[k].pc = "blob"
    /\ IF proc[k].videoId \in videoBlobs
        THEN /\ proc' = [proc EXCEPT ![k].pc = "loading"]
             /\ UNCHANGED procIsProcessing
        ELSE /\ proc' = [proc EXCEPT ![k].pc = "failed"]
             /\ procIsProcessing' = FALSE
    /\ UNCHANGED << videos, videoBlobs, videoKey, adds, keypointIds, lastStore, poseStore >>
    /\ RendererUnchanged
    /\ ManagerUnchanged

\* The processing video fires loadedmetadata (ok) or error. After
\* loadedmetadata processVideo calls initialize() and then
\* extractFramesAndDetectPoses(video, 0, undefined, 5, cb), which run k stands
\* for; loaded tells whether the video has dimensions.
ProcVideoLoaded(k, ok, loaded, duration) ==
    /\ proc[k].pc = "loading"
    /\ IF ~ok
        THEN /\ proc' = [proc EXCEPT ![k].pc = "failed"]
             /\ procIsProcessing' = FALSE
             /\ ManagerUnchanged
        ELSE /\ proc' = [proc EXCEPT ![k].pc = "extracting"]
             /\ UNCHANGED procIsProcessing
             /\ IF isInitialized
                 THEN /\ run' = [run EXCEPT ![k] =
                             RunBeginLoop([@ EXCEPT !.videoEndTime = duration,
                                                    !.loaded = loaded])]
                      /\ UNCHANGED << isInitializing, initStage, initWaiter,
                                      pollTimers, modelsCreated >>
                 ELSE /\ BeginInitialize(RunWaiter(k))
                      /\ run' = [run EXCEPT
                             ![k].videoEndTime = duration,
                             ![k].loaded = loaded,
                             ![k].pc = IF isInitializing THEN "poll" ELSE "init"]
             /\ UNCHANGED << isInitialized, poseLandmarker, config, processingQueue,
                             isProcessing, requests, inFlight, detectLog >>
    /\ UNCHANGED << videos, videoBlobs, videoKey, adds, keypointIds, lastStore, poseStore >>
    /\ RendererUnchanged

\* A catch block that stores what the extraction has collected.
ProcCatchStoresPartial(k) ==
    /\ proc[k].pc = "extracting"
    /\ run[k].pc = "failed"
    /\ proc' = [proc EXCEPT ![k].pc = "failed"]
    /\ procIsProcessing' = FALSE
    /\ StoreTransaction(proc[k].videoId, run[k].keypointDataArray)
    /\ UNCHANGED << videos, videoBlobs, videoKey, adds >>
    /\ RendererUnchanged
    /\ ManagerUnchanged

\* initialize() or extractFramesAndDetectPoses has thrown: the catch and
\* finally blocks of processVideo.
ProcCatch(k) ==
    /\ proc[k].pc = "extracting"
    /\ run[k].pc = "failed"
    /\ proc' = [proc EXCEPT ![k].pc = "failed"]
    /\ procIsProcessing' = FALSE
    /\ UNCHANGED << videos, videoBlobs, videoKey, adds, keypointIds, lastStore, poseStore >>
    /\ RendererUnchanged
    /\ ManagerUnchanged

\* The extraction has returned and storeKeypointData is called: its
\* videoDB.videos.get resolves.
ProcStoreChecked(k) ==
    /\ proc[k].pc = "extracting"
    /\ run[k].pc = "returned"
    /\ IF proc[k].videoId \in videos
        THEN /\ proc' = [proc EXCEPT ![k].pc = "storing"]
             /\ UNCHANGED procIsProcessing
        ELSE /\ proc' = [proc EXCEPT ![k].pc = "failed"]
             /\ procIsProcessing' = FALSE
    /\ UNCHANGED << videos, videoBlobs, videoKey, adds, keypointIds, lastStore, poseStore >>
    /\ RendererUnchanged
    /\ ManagerUnchanged

\* The transaction of storeKeypointData commits; then the finally block.
ProcStoreCommitted(k) ==
    /\ proc[k].pc = "storing"
    /\ StoreTransaction(proc[k].videoId, run[k].keypointDataArray)
    /\ proc' = [proc EXCEPT ![k].pc = "stored"]
    /\ procIsProcessing' = FALSE
    /\ UNCHANGED << videos, videoBlobs, videoKey, adds >>
    /\ RendererUnchanged
    /\ ManagerUnchanged

\* The transaction of storeKeypointData fails: it is rolled back as a whole,
\* storeKeypointData rethrows, and the catch and finally blocks of
\* processVideo run.
ProcStoreFailed(k) ==
    /\ proc[k].pc = "storing"
    /\ proc' = [proc EXCEPT ![k].pc = "failed"]
    /\ procIsProcessing' = FALSE
    /\ UNCHANGED << videos, videoBlobs, videoKey, adds, keypointIds, lastStore, poseStore >>
    /\ RendererUnchanged
    /\ ManagerUnchanged

\* The user clicks Cancel in the processing UI, shown for the call k, and
\* confirms.
Cancel(k) ==
    /\ proc[k].pc \in ActiveStages
    /\ ~proc[k].cancelled
    /\ \A j \in Runs : j > k => proc[j].pc = "idle"
    /\ proc' = [proc EXCEPT ![k].cancelled = TRUE]
    /\ procIsProcessing' = FALSE
    /\ UNCHANGED << videos, videoBlobs, videoKey, adds, keypointIds, lastStore, poseStore >>
    /\ RendererUnchanged
    /\ ManagerUnchanged

-----------------------------------------------------------------------------
(* VideoPlayerComponent *)

MaxPlays == 2   \* playVideo calls in one behaviour

\* What a step of playVideo that does not reach the visualizer leaves alone.
PlayerFrame ==
    /\ Commit(RenderState)
    /\ lastCall' = "other"
    /\ UNCHANGED << videoElement, canvasElement, ctx, currentVideoId, keypointData,
                    isVisualizationEnabled, options, canvasSize, attached,
                    canvasesCreated, listenerSets, loads, currentTime, videoRect,
                    poseStore >>
    /\ UNCHANGED << videos, videoBlobs, videoKey, adds, keypointIds, procIsProcessing, proc, lastStore >>
    /\ UNCHANGED poseVars

\* playVideo(videoId) up to the await of getVideoBlob:
\* cleanupKeypointVisualizer() disposes of the visualizer.
PlayVideo(videoId) ==
    /\ Len(plays) < MaxPlays
    /\ DisposeOverlay
    /\ plays' = Append(plays, [videoId |-> videoId, stage |-> "blob"])
    /\ UNCHANGED << videos, videoBlobs, videoKey, adds, keypointIds, procIsProcessing, proc, lastStore >>
    /\ UNCHANGED poseVars

\* getVideoBlob resolves: without a blob playVideo throws and alerts.
PlayBlobResolved(p) ==
    /\ plays[p].stage = "blob"
    /\ plays' = [plays EXCEPT ![p].stage =
                    IF plays[p].videoId \in videoBlobs THEN "metadata" ELSE "failed"]
    /\ PlayerFrame

\* getAllVideos resolves: without metadata playVideo throws; else the source
\* is set and initializeKeypointVisualizer(videoId) is called, which awaits
\* hasKeypointData.
PlayMetadataResolved(p) ==
    /\ plays[p].stage = "metadata"
    /\ plays' = [plays EXCEPT ![p].stage =
                    IF plays[p].videoId \in videos THEN "hasData" ELSE "failed"]
    /\ PlayerFrame

\* hasKeypointData resolves in initializeKeypointVisualizer: with data,
\* keypointVisualizer.initialize(videoElement, playerContainer, videoId).
PlayHasData(p) ==
    /\ plays[p].stage = "hasData"
    /\ IF poseStore[plays[p].videoId] = << >>
        THEN /\ plays' = [plays EXCEPT ![p].stage = "noData"]
             /\ PlayerFrame
        ELSE /\ plays' = [plays EXCEPT ![p].stage = "visualizer"]
             /\ InitializeOverlay(plays[p].videoId)
             /\ UNCHANGED << videos, videoBlobs, videoKey, adds, keypointIds, procIsProcessing, proc, lastStore >>
             /\ UNCHANGED poseVars

-----------------------------------------------------------------------------
(* Specifications *)

InitPose ==
    /\ isInitialized = FALSE
    /\ isInitializing = FALSE
    /\ poseLandmarker = NoModel
    /\ config = 1
    /\ processingQueue = << >>
    /\ isProcessing = FALSE
    /\ initStage = [stage |-> "none", cfg |-> 0]
    /\ initWaiter = NoWaiter
    /\ pollTimers = << >>
    /\ requests = << >>
    /\ inFlight = {}
    /\ detectLog = << >>
    /\ modelsCreated = 0
    /\ run = [k \in Runs |-> IdleRun]

\* No processVideo call has been made; every video of VideoIds is stored.
InitAdapter == InitPose /\ RenderIdle /\ AppIdle

NextAdapter ==
    \/ \E ts \in ApiTimestamps : DetectPose(ts)
    \/ InitVisionLoaded
    \/ InitSucceed
    \/ InitFail
    \/ PollFire
    \/ \E r \in inFlight, poses \in {0, 1} : DetectReturn(r, poses)
    \/ \E r \in inFlight : DetectThrow(r)
    \/ \E c \in Configs : Configure(c)

SpecAdapter == InitAdapter /\ [][NextAdapter]_vars

\* The adapter when every step that is pending is eventually taken: the
\* model runtime answers, timers fire, and every model call returns or throws.
FairAdapter ==
    /\ SpecAdapter
    /\ WF_vars(InitVisionLoaded)
    /\ WF_vars(InitSucceed \/ InitFail)
    /\ WF_vars(PollFire)
    /\ WF_vars(\E r \in inFlight : DetectReturn(r, 1) \/ DetectThrow(r))

NextExtract ==
    \/ \E k \in Runs, loaded \in BOOLEAN, d \in Durations : StartExtract(k, loaded, d)
    \/ \E k \in Runs : Seeked(k)
    \/ InitVisionLoaded
    \/ InitSucceed
    \/ InitFail
    \/ PollFire
    \/ \E r \in inFlight, poses \in {0, 1} : DetectReturn(r, poses)
    \/ \E r \in inFlight : DetectThrow(r)
    \/ \E c \in Configs : Configure(c)

SpecExtract == InitAdapter /\ [][NextExtract]_vars

\* One extraction over a video of up to MaxSampleFrames fifths of a second.
MaxSampleFrames == 10
SampleDurations == {300, FrameIntervalMs * MaxSampleFrames}

NextSample ==
    \/ \E d \in SampleDurations : StartExtract(1, TRUE, d)
    \/ Seeked(1)
    \/ InitVisionLoaded
    \/ InitSucceed
    \/ InitFail
    \/ \E r \in inFlight, poses \in {0, 1} : DetectReturn(r, poses)
    \/ \E r \in inFlight : DetectThrow(r)
    \/ \E c \in Configs : Configure(c)

SpecSample == InitAdapter /\ [][NextSample]_vars

\* The renderer under free playback, seeks, option changes, resizes and
\* re-initializations, over short videos.
InitRender ==
    /\ InitPose
    /\ AppIdle
    /\ \E ts1 \in RecordSeqs : RenderInit(StoreOf(ts1))

NextRender ==
    \/ \E v \in VideoIds : Initialize(v) /\ UNCHANGED << userEvents, controls >>
    \/ \E l \in loads : LoadHasData(l) /\ UNCHANGED << userEvents, controls >>
    \/ \E l \in loads : LoadGetData(l) /\ UNCHANGED << userEvents, controls >>
    \/ \E l \in loads : LoadError(l) /\ UNCHANGED << userEvents, controls >>
    \/ Dispose /\ UNCHANGED << userEvents, controls >>
    \/ \E patch \in OptionPatches : SetOptions(patch) /\ UNCHANGED << userEvents, controls >>
    \/ \E part \in BodyPartArgs, isVisible \in BOOLEAN :
          ToggleBodyPart(part, isVisible) /\ UNCHANGED << userEvents, controls >>
    \/ \E t \in Times : TimeUpdate(t) /\ UNCHANGED << userEvents, controls >>
    \/ \E t \in Times : PlaybackAdvance(t) /\ UNCHANGED << userEvents, controls >>
    \/ Pause /\ UNCHANGED << userEvents, controls >>
    \/ Ended /\ UNCHANGED << userEvents, controls >>
    \/ \E t \in Times : Seeking(t) /\ UNCHANGED << userEvents, controls >>
    \/ SeekedEvent /\ UNCHANGED << userEvents, controls >>
    \/ \E size \in Sizes : LayoutChange(size) /\ UNCHANGED << userEvents, controls >>
    \/ WindowResize /\ UNCHANGED << userEvents, controls >>
    \/ LoadedMetadata /\ UNCHANGED << userEvents, controls >>

SpecRender == InitRender /\ [][NextRender]_vars

\* The matching of records to playback times: a video with up to
\* MaxMatchRecords records, stored in any order, is loaded once and played
\* forward.
MaxMatchRecords == 3
MaxMatchTimeIdx == 4
MatchRecordTimes == {0, 100, 300, 600}
MatchTimes == {100 * i : i \in 0..MaxMatchTimeIdx}
MatchSeqs == UNION {[1..n -> MatchRecordTimes] : n \in 0..MaxMatchRecords}

InitMatch ==
    /\ InitPose
    /\ AppIdle
    /\ \E ts1 \in MatchSeqs : RenderInit(StoreOf(ts1))

NextMatch ==
    \/ \E v \in VideoIds : canvasesCreated = 0 /\ Initialize(v) /\ UNCHANGED << userEvents, controls >>
    \/ \E l \in loads : LoadHasData(l) /\ UNCHANGED << userEvents, controls >>
    \/ \E l \in loads : LoadGetData(l) /\ UNCHANGED << userEvents, controls >>
    \/ \E t \in MatchTimes : t >= currentTime /\ TimeUpdate(t) /\ UNCHANGED << userEvents, controls >>

SpecMatch == InitMatch /\ [][NextMatch]_vars

\* The cache at its capacity: a video with a record every MatchTolerance
\* milliseconds plays with a timeupdate every CacheStep milliseconds, past the
\* instant at which maxCachedFrames frames have been cached. The user acts at
\* most MaxUserEvents times, at the start, half way, and when the cache is full.
MaxUserEvents == 2
MaxOverflow == 2
CacheStep == 2 * CacheTolerance
CacheEnd == CacheStep * (maxCachedFrames + MaxOverflow)
CacheRecordTimes == [i \in 1..((CacheEnd \div MatchTolerance) + 1) |-> MatchTolerance * (i - 1)]
CueTimes == {0, CacheStep * (maxCachedFrames \div 2), CacheStep * (maxCachedFrames - 1)}
SeekTargets == {0, CacheStep * maxCachedFrames}
CachePatches == { [keypointSize |-> 8], [isEnabled |-> FALSE], [isEnabled |-> TRUE] }

UserEvent ==
    /\ userEvents < MaxUserEvents
    /\ currentTime \in CueTimes
    /\ userEvents' = userEvents + 1
    /\ UNCHANGED controls

InitCache ==
    /\ InitPose
    /\ AppIdle
    /\ RenderInit(StoreOf(CacheRecordTimes))

NextCache ==
    \/ \E v \in VideoIds :
          currentTime \in CueTimes /\ Initialize(v) /\ UNCHANGED << userEvents, controls >>
    \/ \E l \in loads : LoadHasData(l) /\ UNCHANGED << userEvents, controls >>
    \/ \E l \in loads : LoadGetData(l) /\ UNCHANGED << userEvents, controls >>
    \/ /\ loads = {}
       /\ currentTime + CacheStep <= CacheEnd
       /\ TimeUpdate(currentTime + CacheStep)
       /\ UNCHANGED << userEvents, controls >>
    \/ UserEvent /\ Dispose
    \/ UserEvent /\ \E patch \in CachePatches : SetOptions(patch)
    \/ UserEvent /\ ToggleBodyPart("arms", FALSE)
    \/ UserEvent /\ Pause
    \/ UserEvent /\ \E t \in SeekTargets : Seeking(t)
    \/ UserEvent /\ SeekedEvent
    \/ UserEvent /\ WindowResize

SpecCache == InitCache /\ [][NextCache]_vars

\* The drawing of a pose under every combination of region toggles: one video
\* with one record is loaded once and played.
DrawParts == {"face", "torso", "arms", "legs"}

InitDraw ==
    /\ InitPose
    /\ AppIdle
    /\ RenderInit(StoreOf(<< 300 >>))

NextDraw ==
    \/ \E v \in VideoIds : canvasesCreated = 0 /\ Initialize(v) /\ UNCHANGED << userEvents, controls >>
    \/ \E l \in loads : LoadHasData(l) /\ UNCHANGED << userEvents, controls >>
    \/ \E l \in loads : LoadGetData(l) /\ UNCHANGED << userEvents, controls >>
    \/ \E t \in Times : TimeUpdate(t) /\ UNCHANGED << userEvents, controls >>
    \/ \E part \in DrawParts, isVisible \in BOOLEAN :
          ToggleBodyPart(part, isVisible) /\ UNCHANGED << userEvents, controls >>

SpecDraw == InitDraw /\ [][NextDraw]_vars

\* Playback and seeks around instants less than CacheTolerance apart from
\* one another: a video with two records, 0.45 s apart, is loaded once, and
\* timeupdate events arrive at the instants NearTimes in any order.
NearRecordTimes == << 0, 450 >>
NearTimes == {200, 250, 260, 450, 700}

InitNear ==
    /\ InitPose
    /\ AppIdle
    /\ RenderInit(StoreOf(NearRecordTimes))

NextNear ==
    \/ \E v \in VideoIds : canvasesCreated = 0 /\ Initialize(v) /\ UNCHANGED << userEvents, controls >>
    \/ \E l \in loads : LoadHasData(l) /\ UNCHANGED << userEvents, controls >>
    \/ \E l \in loads : LoadGetData(l) /\ UNCHANGED << userEvents, controls >>
    \/ \E t \in NearTimes : TimeUpdate(t) /\ UNCHANGED << userEvents, controls >>

SpecNear == InitNear /\ [][NextNear]_vars

\* The keypoint store under its own operations and the deletion of videos.
InitStore ==
    /\ InitPose
    /\ RenderInit([v \in AllVideoIds |-> << >>])
    /\ videos = AllVideoIds
    /\ videoBlobs = AllVideoIds
    /\ videoKey = 2
    /\ adds = {}
    /\ keypointIds = 0
    /\ procIsProcessing = FALSE
    /\ proc = [k \in Runs |-> IdleProc]
    /\ lastStore = NoStore
    /\ plays = << >>

NextStore ==
    \/ \E v \in AllVideoIds, data \in StoreData : StoreCall(v, data)
    \/ \E v \in AllVideoIds : DeleteKeypointData(v)
    \/ \E v \in AllVideoIds : DeleteVideo(v)

SpecStore == InitStore /\ [][NextStore]_vars

\* Videos processed on demand, cancelled and deleted.
NextProcess ==
    \/ \E k \in Runs, v \in VideoIds : ProcessVideo(k, v)
    \/ \E k \in Runs, shouldReprocess \in BOOLEAN : HasDataResolved(k, shouldReprocess)
    \/ \E k \in Runs : BlobResolved(k)
    \/ \E k \in Runs, ok \in BOOLEAN, loaded \in BOOLEAN, d \in Durations :
          ProcVideoLoaded(k, ok, loaded, d)
    \/ \E k \in Runs : Seeked(k)
    \/ InitVisionLoaded
    \/ InitSucceed
    \/ InitFail
    \/ PollFire
    \/ \E r \in inFlight, poses \in {0, 1} : DetectReturn(r, poses)
    \/ \E r \in inFlight : DetectThrow(r)
    \/ \E k \in Runs : ProcCatch(k)
    \/ \E k \in Runs : ProcStoreChecked(k)
    \/ \E k \in Runs : ProcStoreCommitted(k)
    \/ \E k \in Runs : ProcStoreFailed(k)
    \/ \E k \in Runs : Cancel(k)
    \/ \E v \in VideoIds : DeleteVideo(v)

SpecProcess == InitAdapter /\ [][NextProcess]_vars

\* SpecProcess with every awaited operation of processVideo returning or
\* failing: the store reads, the metadata load, the seeks, the model load,
\* the poll timers, detectForVideo and the store transaction each complete.
\* The user's clicks (processVideo, Cancel, deleteVideo) are not forced.
FairProcess ==
    /\ SpecProcess
    /\ WF_vars(\E k \in Runs, shouldReprocess \in BOOLEAN :
                  HasDataResolved(k, shouldReprocess))
    /\ WF_vars(\E k \in Runs : BlobResolved(k))
    /\ WF_vars(\E k \in Runs, ok \in BOOLEAN, loaded \in BOOLEAN, d \in Durations :
                  ProcVideoLoaded(k, ok, loaded, d))
    /\ WF_vars(\E k \in Runs : Seeked(k))
    /\ WF_vars(InitVisionLoaded)
    /\ WF_vars(InitSucceed \/ InitFail)
    /\ WF_vars(PollFire)
    /\ WF_vars(\E r \in inFlight : DetectReturn(r, 1) \/ DetectThrow(r))
    /\ WF_vars(\E k \in Runs : ProcCatch(k))
    /\ WF_vars(\E k \in Runs : ProcStoreChecked(k))
    /\ WF_vars(\E k \in Runs : ProcStoreCommitted(k) \/ ProcStoreFailed(k))

\* Videos chosen for playback one after another, the second possibly before
\* the first has finished loading; video 1 has one keypoint record.
InitPlay == InitPose /\ AppIdle /\ RenderInit(StoreOf(<< 300 >>))

NextPlay ==
    \/ \E v \in VideoIds : PlayVideo(v) /\ UNCHANGED << userEvents, controls >>
    \/ \E p \in 1..Len(plays) : PlayBlobResolved(p) /\ UNCHANGED << userEvents, controls >>
    \/ \E p \in 1..Len(plays) : PlayMetadataResolved(p) /\ UNCHANGED << userEvents, controls >>
    \/ \E p \in 1..Len(plays) : PlayHasData(p) /\ UNCHANGED << userEvents, controls >>
    \/ \E l \in loads : LoadHasData(l) /\ UNCHANGED << userEvents, controls >>
    \/ \E l \in loads : LoadGetData(l) /\ UNCHANGED << userEvents, controls >>
    \/ \E l \in loads : LoadError(l) /\ UNCHANGED << userEvents, controls >>
    \/ \E t \in Times : TimeUpdate(t) /\ UNCHANGED << userEvents, controls >>
    \/ \E v \in VideoIds : DeleteVideo(v)

SpecPlay == InitPlay /\ [][NextPlay]_vars

\* The player switching between two stored videos, each with one keypoint
\* record of its own.
InitSwitch ==
    /\ InitPose
    /\ RenderInit([v \in AllVideoIds |->
                      << [id |-> v, videoId |-> v, timestamp |-> 300] >>])
    /\ videos = AllVideoIds
    /\ videoBlobs = AllVideoIds
    /\ videoKey = 2
    /\ adds = {}
    /\ keypointIds = 0
    /\ procIsProcessing = FALSE
    /\ proc = [k \in Runs |-> IdleProc]
    /\ lastStore = NoStore
    /\ plays = << >>

NextSwitch ==
    \/ \E v \in AllVideoIds : PlayVideo(v) /\ UNCHANGED << userEvents, controls >>
    \/ \E p \in 1..Len(plays) : PlayBlobResolved(p) /\ UNCHANGED << userEvents, controls >>
    \/ \E p \in 1..Len(plays) : PlayMetadataResolved(p) /\ UNCHANGED << userEvents, controls >>
    \/ \E p \in 1..Len(plays) : PlayHasData(p) /\ UNCHANGED << userEvents, controls >>
    \/ \E l \in loads : LoadHasData(l) /\ UNCHANGED << userEvents, controls >>
    \/ \E l \in loads : LoadGetData(l) /\ UNCHANGED << userEvents, controls >>
    \/ \E t \in Times : TimeUpdate(t) /\ UNCHANGED << userEvents, controls >>

SpecSwitch == InitSwitch /\ [][NextSwitch]_vars

\* The video store under uploads and deletions, empty at first.
InitVideos ==
    /\ InitPose
    /\ RenderInit([v \in 1..MaxVideoKey |-> << >>])
    /\ videos = {}
    /\ videoBlobs = {}
    /\ videoKey = 0
    /\ adds = {}
    /\ keypointIds = 0
    /\ procIsProcessing = FALSE
    /\ proc = [k \in Runs |-> IdleProc]
    /\ lastStore = NoStore
    /\ plays = << >>

NextVideos ==
    \/ AddVideo
    \/ \E id \in adds : AddBlobStored(id)
    \/ \E id \in adds : AddBlobFailed(id)
    \/ \E v \in 1..MaxVideoKey : DeleteVideo(v)

SpecVideos == InitVideos /\ [][NextVideos]_vars

\* The player with the panel of controls: a video with keypoint records is
\* played, the user changes controls, and the video is played again once the
\* earlier playVideo call has run to its end.
ControlPatches == { [isEnabled |-> FALSE], [isEnabled |-> TRUE], [keypointSize |-> 8] }

InitControls == InitPlay

NextControls ==
    \/ \E v \in VideoIds :
          /\ loads = {}
          /\ \A p \in 1..Len(plays) : plays[p].stage \in {"visualizer", "noData", "failed"}
          /\ PlayVideo(v)
          /\ controls' = NoControls
          /\ UNCHANGED userEvents
    \/ \E p \in 1..Len(plays) : PlayBlobResolved(p) /\ UNCHANGED << userEvents, controls >>
    \/ \E p \in 1..Len(plays) : PlayMetadataResolved(p) /\ UNCHANGED << userEvents, controls >>
    \/ \E p \in 1..Len(plays) : PlayHasData(p) /\ UNCHANGED << userEvents, controls >>
    \/ \E l \in loads : /\ LoadHasData(l)
                        /\ controls' = IF poseStore[l.videoId] = << >>
                                           THEN CreateControls ELSE controls
                        /\ UNCHANGED userEvents
    \/ \E l \in loads : LoadGetData(l) /\ controls' = CreateControls /\ UNCHANGED userEvents
    \/ \E part \in {"arms", "legs"}, isChecked \in BOOLEAN :
          ChangeToggle(part, isChecked) /\ UNCHANGED userEvents
    \/ \E patch \in ControlPatches : ChangeOption(patch) /\ UNCHANGED userEvents

SpecControls == InitControls /\ [][NextControls]_vars

-----------------------------------------------------------------------------
(* Claims about the Pose Estimator Adapter and the Frame-Extraction Pipeline *)

\* C1: the model's detections (detectForVideo calls) are made in the order in
\* which the detectPose calls were made, also for calls that arrive while the
\* initialization is in flight. Request ids are given in call order.
C1_DetectionsInCallOrder ==
    \A i, j \in 1..Len(detectLog) :
        i < j => detectLog[i].req < detectLog[j].req

\* C2: at most one detection is in flight on the adapter, and every detection
\* but the latest one started has completed.
C2_AtMostOneInFlight ==
    /\ Cardinality(inFlight) <= 1
    /\ \A i \in 1..(Len(detectLog) - 1) : detectLog[i].req \notin inFlight

\* A detection of one extraction run is in flight while a request of the other
\* run waits in the queue.
C2_Witness ==
    \E r \in inFlight : \E i \in 1..Len(processingQueue) :
        /\ requests[r].owner # 0
        /\ requests[processingQueue[i]].owner # 0
        /\ requests[r].owner # requests[processingQueue[i]].owner

\* C3: when the detection of one sampled instant fails, the extraction goes on
\* with the next instant: no run stays suspended on a detection that has thrown.
C3_ContinuesAfterFailedDetection ==
    \A k \in Runs :
        run[k].pc = "detect" => requests[run[k].req].st # "unsettled"

-----------------------------------------------------------------------------
(* Claims about the Keypoint Renderer *)

\* The records of data within d milliseconds of time t.
RecordsWithin(data, t, d) ==
    {i \in 1..Len(data) : Abs(data[i].timestamp - t) <= d}

\* The entries of cache whose key is within d milliseconds of time t.
FramesWithin(cache, t, d) ==
    {i \in 1..Len(cache) : Abs(cache[i].time - t) <= d}

\* The entries of a cache, without the note of the hits they served.
Resident(cache) ==
    [i \in 1..Len(cache) |->
        [time |-> cache[i].time, image |-> cache[i].image, stamp |-> cache[i].stamp]]

\* record is one of data's records closest to time t, no more than 0.2 s away.
IsClosestMatch(record, data, t) ==
    /\ \E i \in 1..Len(data) : record = data[i]
    /\ Abs(record.timestamp - t) <= 200
    /\ \A i \in 1..Len(data) :
          Abs(record.timestamp - t) <= Abs(data[i].timestamp - t)

\* The updateVisualization calls of the last step that got past the guard.
Handled == {i \in 1..Len(updateLog) : updateLog[i].kind # "skipped"}

\* C4: for every playback time t and the loaded records R,
\* findClosestKeypointData(t) returns a record of R closest to t when that
\* record is at most 0.2 s from t, and no record when R is empty or all of R is
\* more than 0.2 s from t; the updates made draw that record or clear.
C4_ClosestWithinTolerance ==
    /\ \A t \in MatchTimes :
          LET found == FindClosestKeypointData(keypointData, t)
          IN  IF RecordsWithin(keypointData, t, 200) = {}
                  THEN found = NoRecord
                  ELSE IsClosestMatch(found, keypointData, t)
    /\ \A i \in 1..Len(updateLog) :
          LET e == updateLog[i]
          IN  /\ e.kind = "drawn" => IsClosestMatch(e.shown.rec, keypointData, e.time)
              /\ e.kind = "cleared" => RecordsWithin(keypointData, e.time, 200) = {}

\* An update drew a record that is not the first of several loaded ones, while
\* another playback time has no record within 0.2 s.
C4_Witness ==
    /\ Len(keypointData) >= 2
    /\ \E i \in 1..Len(updateLog) :
          /\ updateLog[i].kind = "drawn"
          /\ updateLog[i].shown.rec # keypointData[1]
    /\ \E t \in MatchTimes :
          /\ RecordsWithin(keypointData, t, 200) = {}
          /\ FindClosestKeypointData(keypointData, t) = NoRecord

\* C5: an update handled at a playback time t with no loaded record within
\* 0.2 s of t leaves the overlay clear.
C5_ClearWhenNoRecordNear ==
    \A i \in Handled :
        RecordsWithin(keypointData, updateLog[i].time, 200) = {}
            => updateLog[i].shown = Blank

\* C5, amended: an update handled at a playback time t with no resident cached
\* frame within 0.05 s of t and no loaded record within 0.2 s of t leaves the
\* overlay clear.
C5_ClearWhenNoRecordNearAndNoFrameNear ==
    \A i \in Handled :
        ( /\ FramesWithin(updateLog[i].before, updateLog[i].time, 50) = {}
          /\ RecordsWithin(keypointData, updateLog[i].time, 200) = {} )
            => updateLog[i].shown = Blank

\* An update at a time without a record near finds frames in the cache, none of
\* them near, and clears an overlay.
C5_Witness ==
    \E i \in Handled :
        /\ keypointData # << >>
        /\ updateLog[i].before # << >>
        /\ FramesWithin(updateLog[i].before, updateLog[i].time, 50) = {}
        /\ RecordsWithin(keypointData, updateLog[i].time, 200) = {}
        /\ updateLog[i].shown = Blank

\* C6: an update at a time t1 within 0.05 s of the key t0 of a resident cached
\* frame puts a cached image on the overlay, does no matching and no drawing
\* (the update is a cache hit), and adds no cache entry.
C6_CacheHitReusesFrame ==
    \A i \in 1..Len(updateLog) :
        LET e == updateLog[i]
        IN  FramesWithin(e.before, e.time, 50) # {}
                => /\ e.kind = "hit"
                   /\ \E j \in FramesWithin(e.before, e.time, 50) :
                         e.shown = e.before[j].image
                   /\ Resident(e.after) = Resident(e.before)

\* A hit at a time other than the frame's key, where matching would have
\* found no record.
C6_Witness ==
    \E i \in 1..Len(updateLog) :
        LET e == updateLog[i]
        IN  /\ e.kind = "hit"
            /\ \A j \in FramesWithin(e.before, e.time, 50) : e.before[j].time # e.time
            /\ RecordsWithin(keypointData, e.time, 200) = {}
            /\ e.shown.kind = "pose"

\* C7: the render cache never holds more than 100 entries, at the end of a
\* step and after each update within it.
C7_CacheAtMostCapacity ==
    /\ Len(cachedFrames) <= 100
    /\ \A i \in 1..Len(updateLog) : Len(updateLog[i].after) <= 100

\* A frame has been cached while the cache held 100 entries.
C7_Witness ==
    /\ Len(cachedFrames) = 100
    /\ \E i \in 1..Len(updateLog) :
          /\ updateLog[i].kind = "drawn"
          /\ Len(updateLog[i].before) = 100

\* C8: when a frame is cached while the cache holds 100 entries, exactly one
\* entry leaves the cache, and it is the one inserted before all the others,
\* whatever hits it has served.
C8_EvictsEarliestInserted ==
    \A i \in 1..Len(updateLog) :
        LET e == updateLog[i]
        IN  (e.kind = "drawn" /\ Len(e.before) = 100)
                => /\ Len(e.after) = 100
                   /\ \A j \in 2..100 : Resident(e.after)[j - 1] = Resident(e.before)[j]
                   /\ e.after[100].time = e.time
                   /\ \A j \in 1..100 : e.after[j].time # e.before[1].time
                   /\ \A j \in 2..100 : e.before[1].stamp < e.before[j].stamp

\* The entry evicted is the only one that has served a hit.
C8_Witness ==
    \E i \in 1..Len(updateLog) :
        LET e == updateLog[i]
        IN  /\ e.kind = "drawn"
            /\ Len(e.before) = 100
            /\ e.before[1].served
            /\ \A j \in 2..100 : ~e.before[j].served

\* C9: every entry of the render cache was rasterized under the current
\* options and the current pixel size of the overlay.
C9_CacheMatchesOptionsAndSize ==
    \A i \in 1..Len(cachedFrames) :
        /\ cachedFrames[i].image.opts = options
        /\ cachedFrames[i].image.size = canvasSize

\* An enable request that also changes an option found frames rendered under
\* the old options, and left frames in the cache.
C9_Witness ==
    /\ lastCall = "setOptions"
    /\ cachedFrames # << >>
    /\ \E i \in 1..Len(updateLog) : \E j \in 1..Len(updateLog[i].before) :
          updateLog[i].before[j].image.opts # options

\* C10: when setOptions or toggleBodyPart has changed something and returns,
\* the renderer's canvas shows the record closest to the current playback time
\* (none if none is within 0.2 s) drawn with the new options if the overlay is
\* enabled, and is clear if it is disabled; while disabled it stays clear.
C10_OptionChangeRedraws ==
    /\ (lastCall \in {"setOptions", "toggleBodyPart"} /\ videoElement /\ canvasElement # 0)
          => IF ~isVisualizationEnabled THEN pixels = Blank
             ELSE IF RecordsWithin(keypointData, currentTime, 200) = {} THEN pixels = Blank
             ELSE /\ pixels.kind = "pose"
                  /\ pixels.opts = options
                  /\ pixels.size = canvasSize
                  /\ IsClosestMatch(pixels.rec, keypointData, currentTime)
    /\ ~isVisualizationEnabled => pixels = Blank

\* setOptions enabled the overlay and changed an option: its first update was
\* served a frame drawn with the old options, and the canvas shows a new one.
C10_Witness ==
    /\ lastCall = "setOptions"
    /\ isVisualizationEnabled
    /\ pixels.kind = "pose"
    /\ \E i \in 1..Len(updateLog) :
          /\ updateLog[i].kind = "hit"
          /\ updateLog[i].shown.opts # options

\* The index range the claim gives to each region.
RegionRange(part) ==
    CASE part = "face" -> 0..10
      [] part = "torso" -> 11..16
      [] part = "arms" -> (17..22) \cup (23..32)
      [] part = "legs" -> 23..32

\* C11: in the pose the canvas shows, for each region toggled invisible, no
\* joint with an index in the region's range is drawn and no connector with an
\* end in that range is drawn, whatever the confidences and the other toggles.
C11_HiddenRegionNotDrawn ==
    pixels.kind = "pose" =>
        \A part \in DrawParts :
            ~pixels.opts.visibleBodyParts[part] =>
                /\ \A i \in RegionRange(part), v \in Confidences :
                      ~JointDrawn(i, v, pixels.opts.visibleBodyParts)
                /\ \A c \in Connections, vi \in Confidences, vj \in Confidences :
                      (c[1] \in RegionRange(part) \/ c[2] \in RegionRange(part))
                          => ~ConnectorDrawn(c[1], c[2], vi, vj,
                                             pixels.opts.visibleBodyParts)

-----------------------------------------------------------------------------
(* Claims about the Keypoint Store *)

\* The timestamps of a sequence of stored records.
TimestampsOf(records) == [i \in 1..Len(records) |-> records[i].timestamp]

\* C12: after storeKeypointData(v, S) has committed, the records stored for v
\* are exactly those of S, each with videoId = v and under a key no earlier
\* record had, and the records of the other videos are as they were.
C12_StoreReplacesAll ==
    lastStore.videoId # 0 =>
        LET v == lastStore.videoId
        IN  /\ TimestampsOf(poseStore[v]) = lastStore.data
            /\ \A i \in 1..Len(poseStore[v]) :
                  /\ poseStore[v][i].videoId = v
                  /\ \A u \in AllVideoIds : \A j \in 1..Len(lastStore.before[u]) :
                        poseStore[v][i].id # lastStore.before[u][j].id
            /\ \A u \in AllVideoIds \ {v} : poseStore[u] = lastStore.before[u]

\* A video that had records, other than the new ones, is stored again, while
\* the other video has records too.
C12_Witness ==
    /\ lastStore.videoId # 0
    /\ lastStore.before[lastStore.videoId] # << >>
    /\ TimestampsOf(lastStore.before[lastStore.videoId]) # lastStore.data
    /\ lastStore.data # << >>
    /\ \E u \in AllVideoIds \ {lastStore.videoId} : poseStore[u] # << >>

\* C13: no keypoint record is stored for a video that has been deleted.
C13_NoRecordsOfDeletedVideo ==
    \A v \in AllVideoIds : v \notin videos => poseStore[v] = << >>

-----------------------------------------------------------------------------
(* Claims about the extraction loop *)

\* The detectPose calls made by run k, and the sampled instant of the call r:
\* the j-th call of a run is made for the instant (j - 1) * frameInterval.
CallsOf(k) == {r \in 1..Len(requests) : requests[r].owner = k}
InstantOf(r) ==
    FrameIntervalMs * Cardinality({q \in 1..(r - 1) : requests[q].owner = requests[r].owner})

\* C15: the values passed to the progress callback during one extraction,
\* processedFrames / totalFrames, never decrease and all lie in [0, 1].
C15_ProgressMonotoneInUnit ==
    \A k \in Runs :
        LET p == run[k].progress
        IN  \A i \in 1..Len(p) :
               /\ 0 <= p[i]
               /\ p[i] <= run[k].totalFrames
               /\ i > 1 => p[i - 1] <= p[i]

\* C16: when an extraction has returned its sequence, the last value passed to
\* the progress callback is 1, that is processedFrames = totalFrames.
C16_FinalProgressIsOne ==
    \A k \in Runs :
        run[k].pc = "returned" =>
            /\ run[k].progress # << >>
            /\ run[k].progress[Len(run[k].progress)] = run[k].totalFrames

\* C17: an extraction over [0, end) that has returned attempted exactly
\* ceil(end * 5) instants, and that count is totalFrames.
C17_AttemptsCeilInstants ==
    \A k \in Runs :
        run[k].pc = "returned" =>
            /\ Cardinality(CallsOf(k)) = TotalFrames(0, run[k].videoEndTime)
            /\ Cardinality(CallsOf(k)) = run[k].totalFrames

C20_RecordKeepsSampledInstant ==
    \A k \in Runs :
        \A i \in 1..Len(run[k].keypointDataArray) :
            \E r \in CallsOf(k) :
               /\ run[k].keypointDataArray[i] = InstantOf(r)
               /\ requests[r].ts = Max(1, InstantOf(r))
               /\ \A j \in 1..Len(detectLog) :
                     detectLog[j].req = r => detectLog[j].ts = Max(1, InstantOf(r))

\* The first instant of a run was detected with timestamp 1 and recorded with
\* timestamp 0.
C20_Witness ==
    \E k \in Runs :
        /\ run[k].keypointDataArray # << >>
        /\ run[k].keypointDataArray[1] = 0
        /\ \E j \in 1..Len(detectLog) :
              /\ requests[detectLog[j].req].owner = k
              /\ detectLog[j].ts = 1

-----------------------------------------------------------------------------
(* Claims about the Pose Processor *)

\* C14: once the cancellation of a processing run is confirmed, the run seeks
\* to no further instant and does not call storeKeypointData.
C14_CancelledRunStops ==
    [][\A k \in Runs :
          proc[k].cancelled =>
              /\ run'[k].pc = "seeking" => run[k].pc = "seeking"
              /\ proc'[k].pc = "storing" => proc[k].pc = "storing"]_vars

\* C19: every timestamp given to detectForVideo is positive, and the
\* timestamps given to one model instance for one video, in the order of the
\* calls, never decrease.
C19_TimestampsPositiveMonotone ==
    /\ \A i \in 1..Len(detectLog) : detectLog[i].ts > 0
    /\ \A i, j \in 1..Len(detectLog) :
          LET oi == requests[detectLog[i].req].owner
              oj == requests[detectLog[j].req].owner
          IN  /\ i < j
              /\ oi # 0
              /\ oj # 0
              /\ proc[oi].videoId = proc[oj].videoId
              /\ detectLog[i].model = detectLog[j].model
              => detectLog[i].ts <= detectLog[j].ts

-----------------------------------------------------------------------------
(* Claims about the order of the extraction and about the adapter *)

Settled(r) == requests[r].st \in {"resolved", "rejected"}

\* C21: within one extraction the instants are submitted in strictly
\* increasing order, no instant is sought or submitted before the detection
\* of the previous one has settled, and the records are in strictly
\* increasing order of timestamp.
C21_SequentialIncreasing ==
    \A k \in Runs :
        /\ \A r, q \in CallsOf(k) :
              r < q => requests[r].ts < requests[q].ts /\ Settled(r)
        /\ run[k].pc \in {"seeking", "returned"} => \A r \in CallsOf(k) : Settled(r)
        /\ \A i \in 2..Len(run[k].keypointDataArray) :
              run[k].keypointDataArray[i - 1] < run[k].keypointDataArray[i]

\* A run has returned two records from two detections.
C21_Witness ==
    \E k \in Runs :
        /\ run[k].pc = "returned"
        /\ Len(run[k].keypointDataArray) = 2
        /\ Cardinality(CallsOf(k)) = 2

\* C22: initialize() is shared: no model creation is started while one is in
\* flight or after one has succeeded, and a detectPose call that waited for
\* the creation in flight reaches the model only if that creation succeeded,
\* on the model it created.
C22_InitializeShared ==
    [][/\ modelsCreated' # modelsCreated => ~isInitialized /\ ~isInitializing
       /\ \A j \in 1..Len(detectLog') :
             requests'[detectLog'[j].req].joined # 0 =>
                 detectLog'[j].model.id = requests'[detectLog'[j].req].joined]_vars

\* C23: once configure(c) has returned, the model is invalid, and every
\* detection started from then on runs on a model created with c.
C23_DetectsWithCurrentConfig ==
    [][/\ config' # config => ~isInitialized' /\ poseLandmarker' = NoModel
       /\ Len(detectLog') > Len(detectLog) =>
             detectLog'[Len(detectLog')].model.cfg = config']_vars

-----------------------------------------------------------------------------
(* Claims about failures of a processing run *)

\* C25: the step in which a processing run fails (no blob, video error, video
\* without dimensions, initialization failure, storage failure) leaves the
\* keypoint store as it was, and a failed run takes no further step.
C25_FailedRunLeavesStore ==
    [][\A k \in Runs :
          /\ proc'[k].pc = "failed" /\ proc[k].pc # "failed" => poseStore' = poseStore
          /\ proc[k].pc = "failed" => proc'[k] = proc[k] /\ run'[k] = run[k]]_vars

\* A run has failed on a video that has records from an earlier run.
C25_Witness ==
    \E k \in Runs :
        /\ proc[k].pc = "failed"
        /\ poseStore[proc[k].videoId] # << >>

-----------------------------------------------------------------------------
(* Claims about the life cycle of the renderer *)

\* C26: at most one overlay canvas is attached to the video's container.
C26_AtMostOneOverlay == Cardinality(attached) <= 1

\* C27: once dispose() has returned no set of handlers of the renderer is
\* registered, and at no time is more than one registered, so that one
\* playback event causes at most one overlay update.
C27_ListenersReleased ==
    /\ ~videoElement => listenerSets = 0
    /\ listenerSets <= 1

\* C28: from the return of dispose() to the next initialize call the renderer
\* holds no keypoint records, no canvas and no video, whatever a load that was
\* in flight returns.
C28_DisposedHoldsNothing ==
    ~videoElement => keypointData = << >> /\ canvasElement = 0 /\ ctx = 0

-----------------------------------------------------------------------------
(* Claims about progress reports and about settling *)

\* C29: the progress callback has been invoked once for every instant whose
\* detection has settled, the i-th time with i / totalFrames.
C29_ProgressAfterEveryInstant ==
    \A k \in Runs :
        /\ Len(run[k].progress) = Cardinality({r \in CallsOf(k) : Settled(r)})
        /\ \A i \in 1..Len(run[k].progress) : run[k].progress[i] = i

\* C30: every detectPose call is eventually resolved or rejected.
C30_EveryCallSettles ==
    \A r \in 1..MaxRequests :
        (r <= Len(requests)) ~> (r <= Len(requests) /\ Settled(r))


-----------------------------------------------------------------------------
(* Release of the processing flag *)

\* C31: every processVideo call that takes the processing flag eventually
\* releases it (isProcessing becomes false again), whatever the outcome of
\* loading, initialization, detection and storage, provided every external
\* operation returns or fails.
C31_FlagReleased == procIsProcessing ~> ~procIsProcessing

\* C32: at any time at most one processVideo run is extracting frames or
\* persisting records, for every sequence of process requests and cancel
\* confirmations.
C32_OneRunAtATime ==
    Cardinality({k \in Runs : proc[k].pc \in {"extracting", "storing"}}) <= 1


-----------------------------------------------------------------------------
(* The pose shown and the record matched *)

\* The updates of the last event that put or left a pose on the overlay.
Posed == {i \in DOMAIN updateLog : /\ updateLog[i].kind \in {"hit", "drawn"}
                                   /\ updateLog[i].shown.kind = "pose"}

\* record is a loaded record nearest to time t, within the matching tolerance.
NearestWithin(record, t) ==
    /\ \E j \in DOMAIN keypointData : keypointData[j] = record
    /\ Abs(record.timestamp - t) <= MatchTolerance
    /\ \A j \in DOMAIN keypointData :
          Abs(record.timestamp - t) <= Abs(keypointData[j].timestamp - t)

\* C33 as stated: whenever an update at playback time t leaves a pose on the
\* overlay, the pose shown is the one of the loaded record nearest to t,
\* whether the frame was drawn or served from the cache.
C33_PoseOfNearestRecord ==
    \A i \in Posed :
        \A j \in DOMAIN keypointData :
            Abs(updateLog[i].shown.rec.timestamp - updateLog[i].time)
                <= Abs(keypointData[j].timestamp - updateLog[i].time)

\* C33 amended: whenever an update at playback time t leaves a pose on the
\* overlay, the pose shown is the one of the loaded record nearest to the key
\* t0 of a resident cached frame with |t - t0| <= 0.05 s, and within 0.2 s of
\* t0; t0 is t itself when the frame was drawn by this update.
C33_PoseOfRecordNearestToCachedInstant ==
    \A i \in Posed :
        \E c \in DOMAIN updateLog[i].after :
            LET t0 == updateLog[i].after[c].time
            IN  /\ Abs(updateLog[i].time - t0) <= CacheTolerance
                /\ updateLog[i].kind = "drawn" => t0 = updateLog[i].time
                /\ NearestWithin(updateLog[i].shown.rec, t0)

\* An update is served from the cache a frame of a record that is not the
\* nearest to the playback time.
C33_Witness ==
    \E i \in Posed :
        /\ updateLog[i].kind = "hit"
        /\ ~NearestWithin(updateLog[i].shown.rec, updateLog[i].time)
        /\ \E j \in DOMAIN keypointData :
              /\ keypointData[j] # updateLog[i].shown.rec
              /\ NearestWithin(keypointData[j], updateLog[i].time)


\* C37: when several resident cache entries lie within 0.05 s of the queried
\* time, getCachedFrame returns the entry whose key is closest to the queried
\* time.
C37_ClosestEntryReturned ==
    \A i \in DOMAIN updateLog :
        updateLog[i].kind = "hit" =>
            LET cache == updateLog[i].before
                t == updateLog[i].time
                hit == GetCachedFrame(cache, t)
            IN  \A j \in FramesWithin(cache, t, CacheTolerance) :
                    Abs(cache[hit].time - t) <= Abs(cache[j].time - t)


\* C34: all keypoint records held in memory by the renderer belong to the
\* video most recently passed to initialize (currentVideoId), for every
\* interleaving of playVideo calls, initializations, loads and dispose.
C34_RecordsOfCurrentVideo ==
    \A i \in DOMAIN keypointData : keypointData[i].videoId = currentVideoId


-----------------------------------------------------------------------------
(* What is drawn of a matched record *)

\* The joints and the connectors drawn of a pose whose landmark i has the
\* confidence conf[i], under the region toggles parts.
JointsDrawn(conf, parts) == {i \in Joints : JointDrawn(i, conf[i], parts)}
ConnectorsDrawn(conf, parts) ==
    {c \in Connections : ConnectorDrawn(c[1], c[2], conf[c[1]], conf[c[2]], parts)}

\* The poses considered: every landmark of a region has the same confidence.
RegionConfidences ==
    { [i \in Joints |-> IF i <= 10 THEN f ELSE IF i <= 16 THEN t
                        ELSE IF i <= 22 THEN a ELSE l] :
        f \in {49, 50}, t \in {49, 50}, a \in {49, 50}, l \in {49, 50} }

\* C35: for the record drawn, a joint is drawn if and only if its confidence
\* is at least 0.5 and isBodyPartVisible holds for its index; a connector of
\* the table is drawn if and only if both of its ends satisfy those two
\* conditions.
C35_DrawnIffConfidentAndVisible ==
    pixels.kind = "pose" =>
        LET parts == pixels.opts.visibleBodyParts
            Passes(i, v) == v >= 50 /\ IsBodyPartVisible(i, parts)
        IN  /\ \A i \in Joints, v \in Confidences :
                  JointDrawn(i, v, parts) <=> Passes(i, v)
            /\ \A c \in Connections, vi \in Confidences, vj \in Confidences :
                  ConnectorDrawn(c[1], c[2], vi, vj, parts)
                      <=> (Passes(c[1], vi) /\ Passes(c[2], vj))

\* A pose is drawn with the arms hidden and the torso shown: the line from
\* shoulder 11 to hip 23 has one end that passes the tests, and is not drawn.
C35_Witness ==
    /\ pixels.kind = "pose"
    /\ ~pixels.opts.visibleBodyParts.arms
    /\ pixels.opts.visibleBodyParts.torso
    /\ JointDrawn(11, 100, pixels.opts.visibleBodyParts)
    /\ ~JointDrawn(23, 100, pixels.opts.visibleBodyParts)
    /\ ~ConnectorDrawn(11, 23, 100, 100, pixels.opts.visibleBodyParts)

-----------------------------------------------------------------------------
(* The panel of controls *)

\* C38: after the renderer and its controls are disposed and re-initialized,
\* the state shown by every control (the enabling checkbox, the four region
\* checkboxes, colors, sizes) equals the renderer's corresponding option
\* value, for every sequence of option changes made before.
C38_ControlsShowOptions ==
    controls.present =>
        /\ controls.isEnabled = isVisualizationEnabled
        /\ controls.options = options


-----------------------------------------------------------------------------
(* The video store *)

\* C39: whenever no addVideo is awaiting its blob, also after an addVideo
\* that failed part-way, a metadata record exists for a video id if and only
\* if a blob record exists for the same id.
C39_MetadataIffBlob ==
    adds = {} => \A id \in 1..MaxVideoKey : id \in videos <=> id \in videoBlobs

=============================================================================
